---- MODULE Spec2Model ----
(***************************************************************************)
(* TripMate provider aggregation: FlightsAgent (src/models/flights.py) and *)
(* HotelsAgent (src/models/hotels.py).  One search at a time runs on one   *)
(* agent: request validation, the per-provider retry wrapper, the fan-out  *)
(* under the per-call and whole-round timeouts, dedupe, rank, the hotel    *)
(* cache and the on_partial notifications.                                 *)
(*                                                                         *)
(* Conventions.                                                            *)
(*  - Time is counted in ticks of half a second (the retry wrapper's first *)
(*    backoff delay, 0.5 s, is one tick).                                  *)
(*  - Optional[T]: None is <<>>, a present value v is <<v>>.               *)
(*  - A Python str is a sequence of one-character strings, so that         *)
(*    lower(), upper(), strip() and the substring test are computed.       *)
(*  - A float score is a fixed-point integer in units of 1/SCORE_UNIT.     *)
(***************************************************************************)
EXTENDS Integers, Sequences, FiniteSets, TLC

\* ------------------------------------------------------------------ bounds
MaxProviders == 2
MaxRounds == 2
MaxLag == 62
CallTicks == 1
MaxLimitArg == 12
MixedProviders == 3
MaxItems == 3
MaxSearches == 2

\* --------------------------------------------------------- program constants
MAX_RESULTS_PER_AGENT == 5
PROVIDER_MAX_RETRIES == 2
FLIGHTS_PROVIDER_TIMEOUT_SECONDS == 5
FLIGHTS_AGENT_TIMEOUT_SECONDS == 20
HOTELS_PROVIDER_TIMEOUT_SECONDS == 15
HOTELS_AGENT_TIMEOUT_SECONDS == 60
HOTEL_CACHE_TTL_SECONDS == 300
TENTATIVE_CAP == 3
TICKS_PER_SECOND == 2
INITIAL_DELAY_TICKS == 1
SCORE_UNIT == 100000

\* ------------------------------------------------------------ Optional, str
None == <<>>
Some(v) == <<v>>
IsNone(o) == o = <<>>
Val(o) == o[1]

Min(a, b) == IF a <= b THEN a ELSE b
Max(a, b) == IF a >= b THEN a ELSE b

LowerLetters ==
    <<"a","b","c","d","e","f","g","h","i","j","k","l","m",
      "n","o","p","q","r","s","t","u","v","w","x","y","z">>
UpperLetters ==
    <<"A","B","C","D","E","F","G","H","I","J","K","L","M",
      "N","O","P","Q","R","S","T","U","V","W","X","Y","Z">>

\* str.upper() / str.lower() on one character
UpperChar(c) ==
    IF \E i \in 1..26 : LowerLetters[i] = c
    THEN UpperLetters[CHOOSE i \in 1..26 : LowerLetters[i] = c]
    ELSE c
LowerChar(c) ==
    IF \E i \in 1..26 : UpperLetters[i] = c
    THEN LowerLetters[CHOOSE i \in 1..26 : UpperLetters[i] = c]
    ELSE c
upper(s) == [i \in 1..Len(s) |-> UpperChar(s[i])]
lower(s) == [i \in 1..Len(s) |-> LowerChar(s[i])]

\* str.strip(): leading and trailing blanks removed
strip(s) ==
    LET nb == {i \in 1..Len(s) : s[i] # " "}
    IN  IF nb = {} THEN <<>>
        ELSE LET lo == CHOOSE i \in nb : \A j \in nb : i <= j
                 hi == CHOOSE i \in nb : \A j \in nb : i >= j
             IN  SubSeq(s, lo, hi)

\* Python's "tok in text" on strings
contains(text, tok) ==
    \E i \in 0..(Len(text) - Len(tok)) : SubSeq(text, i + 1, i + Len(tok)) = tok

\* ------------------------------------------------------------------ flights
\* FlightOption as returned by provider p; (provider, id) identifies the object.
FlightOption(p, id, carrier, number, amount, stops, duration) ==
    [id |-> id, provider |-> p, price |-> amount, duration |-> duration,
     stops |-> stops, carrier_code |-> carrier, flight_number |-> number,
     origin |-> Some("DEL"), destination |-> Some("BOM"),
     departure_date |-> Some("2025-12-01"), score |-> None]

flights_dedupe_key(option) ==
    <<option.carrier_code, option.flight_number, option.departure_date,
      option.origin, option.destination>>

\* "(opt.score or 0.0)"
score_or_zero(option) == IF IsNone(option.score) THEN 0 ELSE Val(option.score)

flights_replaces_lower_score(opt, current) ==
    \/ opt.price < current.price
    \/ score_or_zero(opt) < score_or_zero(current)
\* dedupe_flights, the decision for a second item of a key: TRUE when opt
\* replaces current
flights_replaces(opt, current) ==
    \/ opt.price < current.price
    \/ score_or_zero(opt) > score_or_zero(current)

RECURSIVE flights_dedupe_from_drop_incomplete(_, _, _)
flights_dedupe_from_drop_incomplete(options, i, best_by_key) ==
    IF i > Len(options) THEN best_by_key
    ELSE LET opt == options[i]
             hit == {j \in 1..Len(best_by_key) :
                        flights_dedupe_key(best_by_key[j]) = flights_dedupe_key(opt)}
         IN  IF IsNone(opt.carrier_code) \/ IsNone(opt.flight_number)
             THEN flights_dedupe_from_drop_incomplete(options, i + 1, best_by_key)
             ELSE IF hit = {}
             THEN flights_dedupe_from_drop_incomplete(options, i + 1,
                                                      Append(best_by_key, opt))
             ELSE LET j == CHOOSE k \in hit : TRUE
                  IN  flights_dedupe_from_drop_incomplete(options, i + 1,
                         IF flights_replaces(opt, best_by_key[j])
                         THEN [best_by_key EXCEPT ![j] = opt]
                         ELSE best_by_key)

RECURSIVE flights_dedupe_from(_, _, _)
flights_dedupe_from(options, i, best_by_key) ==
    IF i > Len(options) THEN best_by_key
    ELSE LET opt == options[i]
             hit == {j \in 1..Len(best_by_key) :
                        flights_dedupe_key(best_by_key[j]) = flights_dedupe_key(opt)}
         IN  IF hit = {}
             THEN flights_dedupe_from(options, i + 1, Append(best_by_key, opt))
             ELSE LET j == CHOOSE k \in hit : TRUE
                  IN  flights_dedupe_from(options, i + 1,
                         IF flights_replaces(opt, best_by_key[j])
                         THEN [best_by_key EXCEPT ![j] = opt]
                         ELSE best_by_key)

dedupe_flights_skip_first(options) == flights_dedupe_from(options, 2, <<>>)
dedupe_flights(options) == flights_dedupe_from(options, 1, <<>>)

Digits == <<"0","1","2","3","4","5","6","7","8","9">>
IsDigit(c) == \E d \in 1..10 : Digits[d] = c
DigitValue(c) == (CHOOSE d \in 1..10 : Digits[d] = c) - 1

RECURSIVE DecimalValue(_)
DecimalValue(chars) ==
    IF chars = <<>> THEN 0
    ELSE 10 * DecimalValue(SubSeq(chars, 1, Len(chars) - 1))
           + DigitValue(chars[Len(chars)])

\* The hours the duration heuristic of _base_score reads: the digits before
\* the first "h" of the lower-cased string; 0 when there is no "h" or no
\* digit (float("") raises and the except sets the component to 0).
duration_hours(duration) ==
    LET d  == lower(duration)
        hs == {i \in 1..Len(d) : d[i] = "h"}
    IN  IF hs = {} THEN 0
        ELSE LET h      == CHOOSE i \in hs : \A j \in hs : i <= j
                 digits == SelectSeq(SubSeq(d, 1, h - 1), IsDigit)
             IN  IF digits = <<>> THEN 0 ELSE DecimalValue(digits)

\* w/100 of x
Weighted(w, x) == (w * x) \div 100

\* 1.0 / x in score units
Inverse(x) == SCORE_UNIT \div x

\* _base_score with the price itself as the price component
flights_base_score_price_direct(option) ==
    LET price_component == IF option.price > 0 THEN option.price ELSE 0
        stops_component ==
            IF option.stops = 0 THEN SCORE_UNIT
            ELSE (SCORE_UNIT \div 2) \div Max(option.stops, 1)
        hours == duration_hours(option.duration)
        duration_component == IF hours > 0 THEN Inverse(hours) ELSE 0
    IN  Weighted(60, price_component) + Weighted(25, stops_component)
          + Weighted(15, duration_component)

flights_base_score(option) ==
    LET price_component ==
            IF option.price > 0 THEN Inverse(option.price) ELSE 0
        stops_component ==
            IF option.stops = 0 THEN SCORE_UNIT
            ELSE (SCORE_UNIT \div 2) \div Max(option.stops, 1)
        hours == duration_hours(option.duration)
        duration_component == IF hours > 0 THEN Inverse(hours) ELSE 0
    IN  Weighted(60, price_component) + Weighted(25, stops_component)
          + Weighted(15, duration_component)

\* amount ** 0.3 in thousandths, for the amounts the modelled providers quote
Pow03Milli(amount) ==
    CASE amount = 50  -> 3234
      [] amount = 100 -> 3981
      [] amount = 200 -> 4901

PrefCheapest == <<"c","h","e","a","p","e","s","t">>
PrefNonStop == <<"n","o","n","-","s","t","o","p">>
PrefComfort == <<"c","o","m","f","o","r","t">>
PrefBalanced == <<"b","a","l","a","n","c","e","d">>

flights_apply_preference_bias_default_cheapest(score, option, preference) ==
    IF IsNone(preference) \/ Val(preference) = <<>>
    THEN score + Weighted(50, Inverse(option.price))
    ELSE LET pref == lower(Val(preference))
         IN  CASE pref = PrefCheapest ->
                    score + Weighted(50, Inverse(option.price))
               [] pref = PrefNonStop ->
                    IF option.stops = 0 THEN score + Weighted(30, SCORE_UNIT)
                    ELSE score
               [] OTHER -> score

flights_apply_preference_bias(score, option, preference) ==
    IF IsNone(preference) \/ Val(preference) = <<>> THEN score
    ELSE LET pref == lower(Val(preference))
         IN  CASE pref = PrefCheapest ->
                    IF option.price > 0
                    THEN score + Weighted(50, Inverse(option.price))
                    ELSE score
               [] pref = PrefNonStop ->
                    IF option.stops = 0 THEN score + Weighted(30, SCORE_UNIT)
                    ELSE score
               [] pref = PrefComfort ->
                    score + Weighted(20, SCORE_UNIT) * Max(0, 2 - option.stops)
                      + (IF option.price > 0
                         THEN (Weighted(20, SCORE_UNIT) * 1000)
                                \div Pow03Milli(option.price)
                         ELSE 0)
               [] OTHER -> score

RECURSIVE sort_by_score_desc_unstable(_)
sort_by_score_desc_unstable(items) ==
    IF items = <<>> THEN <<>>
    ELSE LET front  == sort_by_score_desc_unstable(SubSeq(items, 1, Len(items) - 1))
             x      == items[Len(items)]
             before == {i \in 1..Len(front) :
                          score_or_zero(front[i]) > score_or_zero(x)}
             k      == Cardinality(before)
         IN  SubSeq(front, 1, k) \o <<x>> \o SubSeq(front, k + 1, Len(front))

\* list.sort(key=score or 0.0, reverse=True): stable, descending
RECURSIVE sort_by_score_desc(_)
sort_by_score_desc(items) ==
    IF items = <<>> THEN <<>>
    ELSE LET front  == sort_by_score_desc(SubSeq(items, 1, Len(items) - 1))
             x      == items[Len(items)]
             before == {i \in 1..Len(front) :
                          score_or_zero(front[i]) >= score_or_zero(x)}
             k      == Cardinality(before)
         IN  SubSeq(front, 1, k) \o <<x>> \o SubSeq(front, k + 1, Len(front))

rank_flights(options, preference) ==
    sort_by_score_desc(
        [i \in 1..Len(options) |->
            [options[i] EXCEPT !.score =
                Some(flights_apply_preference_bias(
                        flights_base_score(options[i]), options[i], preference))]])

\* ranked[:limit]
TakeAll(items, limit) == items
Take(items, limit) == SubSeq(items, 1, Min(limit, Len(items)))

\* FlightsAgent._postprocess; ranked is the whole ranked list, whose scores
\* rank_flights has written onto the pooled objects
flights_postprocess(options, preference, limit) ==
    IF options = <<>> THEN [raised |-> FALSE, out |-> <<>>, ranked |-> <<>>]
    ELSE LET ranked == rank_flights(dedupe_flights(options), preference)
         IN  [raised |-> FALSE, out |-> Take(ranked, limit), ranked |-> ranked]


\* ------------------------------------------------------------------- hotels
\* HotelOption as returned by provider p; lat and lon in 1/10000 degree.
HotelOption(p, id, name, address, rating, price, lat, lon, distance) ==
    [id |-> id, provider |-> p, price |-> price, rating |-> rating,
     name |-> name, address |-> address, location |-> [lat |-> lat, lon |-> lon],
     distance_from_center_km |-> distance, score |-> None]

\* round(x, 3) of a coordinate given in 1/10000 degree, in 1/1000 degree
\* (round half to even)
round3(x) ==
    LET q == x \div 10
        r == x % 10
    IN  IF r < 5 THEN q
        ELSE IF r > 5 THEN q + 1
        ELSE IF q % 2 = 0 THEN q ELSE q + 1

\* "(s or '')"
str_or_empty(o) == IF IsNone(o) THEN <<>> ELSE Val(o)

hotels_dedupe_key_as_given(option) ==
    LET name    == str_or_empty(option.name)
        address == str_or_empty(option.address)
    IN  IF name # <<>> /\ address # <<>>
        THEN <<name, address>>
        ELSE <<name, round3(option.location.lat), round3(option.location.lon)>>

hotels_dedupe_key(option) ==
    LET name    == lower(strip(str_or_empty(option.name)))
        address == lower(strip(str_or_empty(option.address)))
    IN  IF name # <<>> /\ address # <<>>
        THEN <<name, address>>
        ELSE <<name, round3(option.location.lat), round3(option.location.lon)>>

\* "opt.rating > current.rating" raises TypeError when either rating is None
hotels_compare_raises(opt, current) ==
    IsNone(opt.rating) \/ IsNone(current.rating)

\* dedupe_hotels, the decision for a second item of a key (ratings present)
hotels_replaces(opt, current) ==
    \/ Val(opt.rating) > Val(current.rating)
    \/ /\ Val(opt.rating) = Val(current.rating)
       /\ ~IsNone(opt.price) /\ ~IsNone(current.price)
       /\ Val(opt.price) < Val(current.price)
    \/ score_or_zero(opt) > score_or_zero(current)

RECURSIVE hotels_dedupe_from(_, _, _)
hotels_dedupe_from(options, i, best_by_key) ==
    IF i > Len(options) THEN [raised |-> FALSE, out |-> best_by_key]
    ELSE LET opt == options[i]
             hit == {j \in 1..Len(best_by_key) :
                        hotels_dedupe_key(best_by_key[j]) = hotels_dedupe_key(opt)}
         IN  IF hit = {}
             THEN hotels_dedupe_from(options, i + 1, Append(best_by_key, opt))
             ELSE LET j == CHOOSE k \in hit : TRUE
                  IN  IF hotels_compare_raises(opt, best_by_key[j])
                      THEN [raised |-> TRUE, out |-> <<>>]
                      ELSE hotels_dedupe_from(options, i + 1,
                              IF hotels_replaces(opt, best_by_key[j])
                              THEN [best_by_key EXCEPT ![j] = opt]
                              ELSE best_by_key)

dedupe_hotels(options) == hotels_dedupe_from(options, 1, <<>>)

hotels_base_score(option) ==
    LET rating_component ==
            IF IsNone(option.rating) \/ Val(option.rating) = 0 THEN 0
            ELSE (SCORE_UNIT * Val(option.rating)) \div 5
        price_component ==
            IF ~IsNone(option.price) /\ Val(option.price) > 0
            THEN Inverse(Val(option.price)) ELSE 0
        distance_component ==
            IF IsNone(option.distance_from_center_km) THEN 0
            ELSE Max(0, SCORE_UNIT
                          - (SCORE_UNIT * Val(option.distance_from_center_km)) \div 10)
    IN  Weighted(50, rating_component) + Weighted(30, price_component)
          + Weighted(20, distance_component)

PrefLuxury == <<"l","u","x","u","r","y">>
PrefHighRating == <<"h","i","g","h","-","r","a","t","i","n","g">>

\* "option.rating / 5.0" raises TypeError when rating is None
hotels_bias_raises(option, preference) ==
    /\ ~IsNone(preference) /\ Val(preference) # <<>>
    /\ lower(Val(preference)) \in {PrefLuxury, PrefHighRating}
    /\ IsNone(option.rating)

hotels_apply_preference_bias(score, option, preference) ==
    IF IsNone(preference) \/ Val(preference) = <<>> THEN score
    ELSE LET pref == lower(Val(preference))
         IN  CASE pref = PrefCheapest ->
                    IF ~IsNone(option.price) /\ Val(option.price) > 0
                    THEN score + Weighted(60, Inverse(Val(option.price)))
                    ELSE score
               [] pref = PrefLuxury ->
                    score + Weighted(30, (SCORE_UNIT * Val(option.rating)) \div 5)
                      + (IF ~IsNone(option.price) /\ Val(option.price) > 0
                         THEN Weighted(20, Pow03Milli(Val(option.price))
                                             * (SCORE_UNIT \div 1000))
                         ELSE 0)
               [] pref = PrefHighRating ->
                    score + Weighted(40, (SCORE_UNIT * Val(option.rating)) \div 5)
               [] OTHER -> score

rank_hotels(options, preference) ==
    IF \E i \in 1..Len(options) : hotels_bias_raises(options[i], preference)
    THEN [raised |-> TRUE, out |-> <<>>]
    ELSE [raised |-> FALSE,
          out |-> sort_by_score_desc(
              [i \in 1..Len(options) |->
                  [options[i] EXCEPT !.score =
                      Some(hotels_apply_preference_bias(
                              hotels_base_score(options[i]), options[i],
                              preference))]])]

\* HotelsAgent._postprocess
hotels_postprocess(options, preference, limit) ==
    IF options = <<>> THEN [raised |-> FALSE, out |-> <<>>, ranked |-> <<>>]
    ELSE LET deduped == dedupe_hotels(options)
             ranked  == rank_hotels(deduped.out, preference)
         IN  IF deduped.raised \/ ranked.raised
             THEN [raised |-> TRUE, out |-> <<>>, ranked |-> <<>>]
             ELSE [raised |-> FALSE, out |-> Take(ranked.out, limit),
                   ranked |-> ranked.out]


\* ------------------------------------------------------------ retry wrapper
\* str(exc) of the exceptions the modelled providers raise.  asyncio's
\* TimeoutError, raised by wait_for, has the empty text.
TimeoutText == <<>>
TransientText == <<"b","o","o","m">>
BusinessText == <<"N","o"," ","r","o","o","m","s">>
ErrorTexts == {TransientText, BusinessText}

\* the default of tolerate_error_texts
TOLERATE_ERROR_TEXTS ==
    { <<"N","O"," ","R","O","O","M","S">>,
      <<"N","O"," ","R","O","O","M","S"," ","A","V","A","I","L","A","B","L","E">>,
      <<"I","N","V","A","L","I","D"," ","P","R","O","P","E","R","T","Y">>,
      <<"I","N","V","A","L","I","D"," ","P","R","O","P","E","R","T","Y"," ","C","O","D","E">>,
      <<"I","N","V","A","L","I","D"," ","O","R"," ","M","I","S","S","I","N","G"," ","D","A","T","A">> }

\* any(tok in text for tok in (t.upper() for t in tolerate_error_texts)),
\* text = str(exc).upper()
is_tolerated(exc_text) ==
    \E t \in TOLERATE_ERROR_TEXTS : contains(upper(exc_text), upper(t))

\* What _with_retries does with an exception of attempt `attempt` (from 0):
\* "return" (the empty list) or "sleep" (back off, then the next attempt).
flights_with_retries_one_more(attempt, retries, exc_text) ==
    IF attempt = retries + 1 THEN "return" ELSE "sleep"
flights_with_retries(attempt, retries, exc_text) ==
    IF attempt = retries THEN "return" ELSE "sleep"

hotels_with_retries_no_tolerance(attempt, retries, exc_text) ==
    IF attempt = retries THEN "return" ELSE "sleep"
hotels_with_retries(attempt, retries, exc_text) ==
    IF is_tolerated(exc_text) THEN "return"
    ELSE IF attempt = retries THEN "return" ELSE "sleep"

\* ----------------------------------------------------------------- requests
clamp_limit_no_floor(v) == Min(v, MAX_RESULTS_PER_AGENT)
\* the "limit" validator of FlightSearchRequest and HotelSearchRequest
clamp_limit(v) == Min(Max(v, 1), MAX_RESULTS_PER_AGENT)

FlightSearchRequest(user_preference, limit) ==
    [origin |-> "DEL", destination |-> "BOM", departure_date |-> "2025-12-01",
     user_preference |-> user_preference, non_stop_only |-> FALSE,
     limit |-> clamp_limit(limit)]

HotelSearchRequest(destination, user_preference, min_rating, limit) ==
    [destination |-> destination, lat |-> None, lon |-> None,
     checkin_date |-> "2025-12-01", checkout_date |-> "2025-12-03",
     user_preference |-> user_preference, min_rating |-> min_rating,
     star_rating_only |-> None, amenities_must_have |-> <<>>,
     pets_allowed_only |-> FALSE, limit |-> clamp_limit(limit)]

\* "(x or 0.0)" and "(x or '')" on an optional number
num_or_zero(o) == IF IsNone(o) THEN 0 ELSE Val(o)
num_or_blank(o) == IF IsNone(o) \/ Val(o) = 0 THEN <<>> ELSE o

\* sorted([a.lower() for a in names]): two lists sort to the same list
\* exactly when they hold the same lowered names equally often
sorted_lower(names) ==
    LET low == [i \in 1..Len(names) |-> lower(names[i])]
    IN  [n \in {low[i] : i \in 1..Len(names)} |->
            Cardinality({i \in 1..Len(names) : low[i] = n})]

\* a cache key that has the request's limit among its parts
hotels_cache_key_with_limit(req) ==
    <<req.limit>> \o
    <<lower(str_or_empty(req.destination)),
      round3(num_or_zero(req.lat)), round3(num_or_zero(req.lon)),
      req.checkin_date, req.checkout_date,
      num_or_blank(req.min_rating), num_or_blank(req.star_rating_only),
      IF req.pets_allowed_only THEN 1 ELSE 0,
      sorted_lower(req.amenities_must_have)>>

\* HotelsAgent._cache_key: the parts of the "|"-joined string
hotels_cache_key(req) ==
    <<lower(str_or_empty(req.destination)),
      round3(num_or_zero(req.lat)), round3(num_or_zero(req.lon)),
      req.checkin_date, req.checkout_date,
      num_or_blank(req.min_rating), num_or_blank(req.star_rating_only),
      IF req.pets_allowed_only THEN 1 ELSE 0,
      sorted_lower(req.amenities_must_have)>>


\* ---------------------------------------------------------------- providers
\* The lists a provider's search_flights / search_hotels may return.
FlightLists(p) ==
    { <<>>,
      << FlightOption(p, "1", Some("AI"), Some("302"), 100, 0, <<"P","T","2","H">>),
         FlightOption(p, "2", Some("BA"), Some("117"), 50, 1, <<"P","T","4","H">>) >>,
      << FlightOption(p, "3", Some("AI"), Some("302"), 200, 0, <<"P","T","2","H">>),
         FlightOption(p, "4", None, None, 100, 2, <<"P","T","4","5","M">>),
         FlightOption(p, "5", Some("LH"), Some("760"), 200, 1, <<"P","T","8","H">>),
         FlightOption(p, "6", Some("AI"), Some("302"), 100, 0, <<"P","T","2","H">>) >> }

Ritz == <<"R","i","t","z">>
RitzLoud == <<" ","R","I","T","Z">>
Ibis == <<"I","b","i","s">>
MainSt == <<"1"," ","M","a","i","n">>
HighSt == <<"2"," ","H","i","g","h">>

HotelLists(p) ==
    { <<>>,
      << HotelOption(p, "1", Some(Ritz), Some(MainSt), Some(5), Some(200),
                     515010, -1200, Some(2)),
         HotelOption(p, "2", Some(Ibis), None, Some(3), Some(50),
                     515020, -1300, Some(12)),
         HotelOption(p, "5", Some(RitzLoud), Some(MainSt), Some(4), Some(100),
                     515010, -1200, None) >>,
      << HotelOption(p, "3", Some(RitzLoud), Some(MainSt), Some(4), Some(100),
                     515010, -1200, None) >>,
      << HotelOption(p, "4", Some(Ritz), Some(MainSt), None, None,
                     515010, -1200, None) >> }

ProviderLists(a, p) == IF a = "flights" THEN FlightLists(p) ELSE HotelLists(p)

\* ------------------------------------------------------------------- state
VARIABLES
    agent,            \* "flights": a FlightsAgent, "hotels": a HotelsAgent
    providers,        \* len(self.providers); the providers are 1..providers
    cache,            \* self._cache (hotels): key -> [expires_at, options]
    now,              \* time.time(), in ticks
    rounds,           \* calls of search so far
    pc,               \* where the current call of search is
    limit_arg,        \* the limit the request was constructed with
    request,          \* the request
    on_partial,       \* whether search was given an on_partial callback
    use_cache,        \* its use_cache argument
    started,          \* when it was called
    tasks,            \* the provider tasks of run_all_providers
    completed,        \* providers whose task is done, in completion order
    folded,           \* providers whose results are in the pool
    results,          \* the pool of run_all_providers
    partial_emitted,  \* its flag
    emitted,          \* the responses given to on_partial, in order
    final_options,    \* what search returned
    timed_out,        \* whether the whole-round wait_for timed out
    accumulated,      \* the completed providers' items at that moment
    searches,         \* the calls of search() that run concurrently on the agent
    hard_filters,     \* whether the caller's requests set their hard filters
    fetch,            \* a provider's mapping of an Amadeus response to options
    client,           \* an AmadeusClient and the get() calls on it
    app_state         \* the supervisor graph's state at its respond node

vars == <<agent, providers, cache, now, rounds, pc, limit_arg, request,
          on_partial, use_cache, started, tasks, completed, folded, results,
          partial_emitted, emitted, final_options, timed_out, accumulated,
          searches, hard_filters, fetch, client, app_state>>

\* what no step of a single call of search() changes
agent_vars == <<agent, providers, searches, hard_filters, fetch, client,
                app_state>>

\* no provider mapping, no Amadeus client and no supervisor graph in the run
ServicesIdle == fetch = <<>> /\ client = <<>> /\ app_state = <<>>

\* a per-call timeout of 7 s (flights) and 21 s (hotels)
PROVIDER_TIMEOUT_LONGER ==
    TICKS_PER_SECOND * (IF agent = "flights" THEN FLIGHTS_PROVIDER_TIMEOUT_SECONDS + 2
                        ELSE HOTELS_PROVIDER_TIMEOUT_SECONDS + 6)
PROVIDER_TIMEOUT ==
    TICKS_PER_SECOND * (IF agent = "flights" THEN FLIGHTS_PROVIDER_TIMEOUT_SECONDS
                        ELSE HOTELS_PROVIDER_TIMEOUT_SECONDS)
AGENT_TIMEOUT ==
    TICKS_PER_SECOND * (IF agent = "flights" THEN FLIGHTS_AGENT_TIMEOUT_SECONDS
                        ELSE HOTELS_AGENT_TIMEOUT_SECONDS)
HOTEL_CACHE_TTL == TICKS_PER_SECOND * HOTEL_CACHE_TTL_SECONDS

Providers == 1..providers

\* one provider task: _call_provider running _with_retries(call)
\* st: "call" (awaiting wait_for(p.search_...)), "sleep" (backing off),
\* "done" (returned items), "cancelled".  deadline: when wait_for's timeout
\* fires; due: when the call or the sleep ends; errors: str(exc) per failed
\* attempt; profile: how the provider behind the task behaves.
NewTask(profile) ==
    [st |-> "call", attempt |-> 0, delay |-> INITIAL_DELAY_TICKS, due |-> 0,
     deadline |-> 0, items |-> <<>>, errors |-> <<>>, profile |-> profile]

NoRequest == [limit |-> 0]

Init ==
    /\ agent \in {"flights", "hotels"}
    /\ providers \in 0..MaxProviders
    /\ cache = <<>>
    /\ now = 0
    /\ rounds = 0
    /\ pc = "idle"
    /\ limit_arg = 0
    /\ request = NoRequest
    /\ on_partial = FALSE
    /\ use_cache = FALSE
    /\ started = 0
    /\ tasks = <<>>
    /\ completed = <<>>
    /\ folded = {}
    /\ results = <<>>
    /\ partial_emitted = FALSE
    /\ emitted = <<>>
    /\ final_options = <<>>
    /\ timed_out = FALSE
    /\ accumulated = <<>>
    /\ searches = <<>>
    /\ hard_filters = FALSE /\ ServicesIdle


\* ------------------------------------------------------------- environment
\* How long a provider call takes: it answers (returns or raises) after
\* CallTicks; or it is still running when wait_for's timeout fires, and then
\* ends when the provider has honoured the cancellation: at once, or MaxLag
\* later (wait_for waits until the cancelled call has ended).
CallPlans == {"answers", "hangs", "hangs_and_lags"}

\* How a provider behaves during one search.  "any": each attempt is free to
\* return any list, raise any error, or hang.  The others fix the behaviour:
\* "reliable" returns a list at the first attempt, "flaky" raises once and
\* then returns, "down" raises a transient error at every attempt,
\* "no_inventory" a business error, "slow" exceeds the per-call timeout at
\* every attempt and ends at once when cancelled, "stuck" ends MaxLag after
\* it is cancelled.
Profiles == {"reliable", "flaky", "down", "no_inventory", "slow", "stuck"}

\* an agent with one provider meets every behaviour, attempt by attempt
ProfilesOf(n) == IF n <= 1 THEN {"any"} ELSE Profiles

PlansOf(task) ==
    CASE task.profile = "any" -> CallPlans
      [] task.profile = "slow" -> {"hangs"}
      [] task.profile = "stuck" -> {"hangs_and_lags"}
      [] OTHER -> {"answers"}

MayReturn(task) ==
    \/ task.profile \in {"any", "reliable"}
    \/ task.profile = "flaky" /\ task.attempt > 0

RaisesOf(task) ==
    CASE task.profile = "any" -> ErrorTexts
      [] task.profile = "flaky" /\ task.attempt = 0 -> {TransientText}
      [] task.profile = "down" -> {TransientText}
      [] task.profile = "no_inventory" -> {BusinessText}
      [] OTHER -> {}

\* how long the provider takes to end a call cancelled before its deadline
LagsOf(task) ==
    CASE task.profile = "any" -> {0, MaxLag}
      [] task.profile = "stuck" -> {MaxLag}
      [] OTHER -> {0}

StartCall(task, plan, t) ==
    [task EXCEPT
        !.st = "call",
        !.deadline = t + PROVIDER_TIMEOUT,
        !.due = CASE plan = "answers" -> t + CallTicks
                  [] plan = "hangs" -> t + PROVIDER_TIMEOUT
                  [] plan = "hangs_and_lags" -> t + PROVIDER_TIMEOUT + MaxLag]

LimitInputs == {0, 7}
London == <<"L","O","N">>

Preferences ==
    IF agent = "flights" THEN {None, Some(PrefCheapest)}
    ELSE {None, Some(PrefLuxury)}

\* the request the caller constructs
NewRequest(pref, v) ==
    IF agent = "flights"
    THEN [FlightSearchRequest(pref, v) EXCEPT !.non_stop_only = hard_filters]
    ELSE HotelSearchRequest(Some(London), pref,
                            IF hard_filters THEN Some(4) ELSE None, v)

\* time between two calls of search on the agent
Gaps == IF cache = <<>> THEN {1} ELSE {1, HOTEL_CACHE_TTL}

Response(status, options) == [status |-> status, options |-> options]

Idle == pc \in {"idle", "returned", "raised"}

\* ------------------------------------------------------------------- cache
cache_entry_fresh_never(entry, t) == FALSE
cache_entry_fresh_at_expiry(entry, t) == entry.expires_at >= t
\* "if entry.expires_at > now"
cache_entry_fresh(entry, t) == entry.expires_at > t

CacheEntryExpired(t, options) == [expires_at |-> t, options |-> options]
\* _CacheEntry(expires_at=time.time() + HOTEL_CACHE_TTL_SECONDS, options=...)
CacheEntry(t, options) == [expires_at |-> t + HOTEL_CACHE_TTL, options |-> options]

cached_notifications_tentative_first(cb, cached) ==
    IF cb /\ cached # <<>>
    THEN <<Response("tentative", cached), Response("final", cached)>>
    ELSE <<>>
\* the cache-hit branch: "if on_partial and cached: await on_partial(FINAL)"
cached_notifications(cb, cached) ==
    IF cb /\ cached # <<>> THEN <<Response("final", cached)>> ELSE <<>>

\* ----------------------------------------------------------------- request
\* FlightSearchRequest(..., limit=v) / HotelSearchRequest(..., limit=v)
Construct(pref, v) ==
    /\ pc = "idle"
    /\ limit_arg' = v
    /\ request' = NewRequest(pref, v)
    /\ UNCHANGED <<agent_vars, cache, now, rounds, pc, on_partial, use_cache,
                   started, tasks, completed, folded, results, partial_emitted,
                   emitted, final_options, timed_out, accumulated>>

\* ------------------------------------------------------------------ search
\* search() served from self._cache: the entry is present and not expired
SearchFromCache(pref, v, cb, gap) ==
    LET req == NewRequest(pref, v)
        key == hotels_cache_key(req)
        t   == now + gap
    IN  /\ Idle
        /\ agent = "hotels"
        /\ key \in DOMAIN cache
        /\ cache_entry_fresh(cache[key], t)
        /\ LET cached == Take(cache[key].options, req.limit)
           IN  /\ final_options' = cached
               /\ emitted' = cached_notifications(cb, cached)
        /\ now' = t
        /\ started' = t
        /\ rounds' = rounds + 1
        /\ limit_arg' = v
        /\ request' = req
        /\ on_partial' = cb
        /\ use_cache' = TRUE
        /\ pc' = "returned"
        /\ tasks' = <<>> /\ completed' = <<>> /\ folded' = {}
        /\ results' = <<>> /\ partial_emitted' = FALSE
        /\ timed_out' = FALSE /\ accumulated' = <<>>
        /\ UNCHANGED <<agent_vars, cache>>

\* search() past the cache: an expired entry is popped, run_all_providers
\* creates one task per provider and each task begins its first call
SearchFanOut(pref, v, cb, uc, gap, profile) ==
    LET req == NewRequest(pref, v)
        key == hotels_cache_key(req)
        t   == now + gap
        hit == agent = "hotels" /\ uc /\ key \in DOMAIN cache
    IN  /\ Idle
        /\ agent = "flights" => uc = FALSE
        /\ hit => ~cache_entry_fresh(cache[key], t)
        /\ cache' = IF hit THEN [k \in DOMAIN cache \ {key} |-> cache[k]] ELSE cache
        /\ now' = t
        /\ started' = t
        /\ rounds' = rounds + 1
        /\ limit_arg' = v
        /\ request' = req
        /\ on_partial' = cb
        /\ use_cache' = uc
        /\ pc' = "running"
        /\ \E plan \in [Providers -> CallPlans] :
              /\ \A p \in Providers : plan[p] \in PlansOf(NewTask(profile[p]))
              /\ tasks' = [p \in Providers |->
                             StartCall(NewTask(profile[p]), plan[p], t)]
        /\ completed' = <<>> /\ folded' = {}
        /\ results' = <<>> /\ partial_emitted' = FALSE
        /\ emitted' = <<>> /\ final_options' = <<>>
        /\ timed_out' = FALSE /\ accumulated' = <<>>
        /\ UNCHANGED agent_vars


\* _postprocess of the agent
postprocess(options, preference, limit) ==
    IF agent = "flights" THEN flights_postprocess(options, preference, limit)
    ELSE hotels_postprocess(options, preference, limit)

with_retries(attempt, exc_text) ==
    IF agent = "flights"
    THEN flights_with_retries(attempt, PROVIDER_MAX_RETRIES, exc_text)
    ELSE hotels_with_retries(attempt, PROVIDER_MAX_RETRIES, exc_text)

SameObject(x, y) == x.provider = y.provider /\ x.id = y.id

\* the pool after rank_* has set .score on the objects of `ranked`
Scored(pool, ranked) ==
    [i \in 1..Len(pool) |->
        IF \E j \in 1..Len(ranked) : SameObject(ranked[j], pool[i])
        THEN ranked[CHOOSE j \in 1..Len(ranked) : SameObject(ranked[j], pool[i])]
        ELSE pool[i]]

session_vars == <<rounds, limit_arg, request, on_partial, use_cache, started>>

\* "self._cache[cache_key] = _CacheEntry(expires_at=..., options=final_options)"
cache_write_merging(entries, key, t, options) ==
    [k \in DOMAIN entries \cup {key} |->
        IF k # key THEN entries[k]
        ELSE IF key \in DOMAIN entries
             THEN CacheEntry(t, entries[key].options \o options)
             ELSE CacheEntry(t, options)]
cache_write(entries, key, t, options) ==
    [k \in DOMAIN entries \cup {key} |->
        IF k = key THEN CacheEntry(t, options) ELSE entries[k]]

final_notifications_also_empty(cb, final) ==
    IF cb THEN <<Response("final", final)>> ELSE <<>>
\* "if on_partial and final_options: await on_partial(...)"
final_notifications(cb, final) ==
    IF cb /\ final # <<>> THEN <<Response("final", final)>> ELSE <<>>

\* the end of search() with the cache written whatever the final list is
ReturnsCachingAlways(all_results) ==
    LET pp == postprocess(all_results, request.user_preference, request.limit)
    IN  /\ pc' = IF pp.raised THEN "raised" ELSE "returned"
        /\ final_options' = pp.out
        /\ cache' = IF ~pp.raised /\ agent = "hotels"
                    THEN cache_write(cache, hotels_cache_key(request), now, pp.out)
                    ELSE cache
        /\ emitted' = IF pp.raised THEN emitted
                      ELSE emitted \o final_notifications(on_partial, pp.out)

\* The end of search() once all_results is known: _postprocess, the cache
\* update, the final notification, the return.
Returns(all_results) ==
    LET pp == postprocess(all_results, request.user_preference, request.limit)
    IN  /\ pc' = IF pp.raised THEN "raised" ELSE "returned"
        /\ final_options' = pp.out
        /\ cache' = IF ~pp.raised /\ agent = "hotels" /\ use_cache /\ pp.out # <<>>
                    THEN cache_write(cache, hotels_cache_key(request), now, pp.out)
                    ELSE cache
        /\ emitted' = IF pp.raised THEN emitted
                      ELSE emitted \o final_notifications(on_partial, pp.out)

\* search() ends with no provider task left in flight
Finish(all_results) ==
    /\ Returns(all_results)
    /\ tasks' = <<>> /\ completed' = <<>> /\ folded' = {}
    /\ results' = <<>> /\ partial_emitted' = FALSE

\* flights: search() has returned on the whole-round timeout and the tasks
\* asyncio.as_completed started are still in the event loop
TasksLeftRunning ==
    agent = "flights" /\ pc = "returned" /\ timed_out /\ tasks # <<>>

\* a provider task takes its steps while run_all_providers awaits it, and
\* when it was left running
TaskRuns == pc = "running" \/ TasksLeftRunning

\* ----------------------------------------------------------- provider task
AfterExceptionLeaks(p, exc_text) ==
    LET task == tasks[p]
    IN  IF with_retries(task.attempt, exc_text) = "return"
        THEN /\ tasks' = [tasks EXCEPT ![p] =
                            [task EXCEPT !.st = "done",
                                         !.items = CHOOSE l \in ProviderLists(agent, p) :
                                                       Len(l) = 3 \/ Len(l) = 2,
                                         !.errors = Append(@, exc_text)]]
             /\ completed' = Append(completed, p)
        ELSE /\ tasks' = [tasks EXCEPT ![p] =
                            [task EXCEPT !.st = "sleep", !.due = now + task.delay,
                                         !.errors = Append(@, exc_text)]]
             /\ completed' = completed
\* the task of provider p, after the exception of its current attempt
AfterException(p, exc_text) ==
    LET task == tasks[p]
    IN  IF with_retries(task.attempt, exc_text) = "return"
        THEN /\ tasks' = [tasks EXCEPT ![p] =
                            [task EXCEPT !.st = "done", !.items = <<>>,
                                         !.errors = Append(@, exc_text)]]
             /\ completed' = Append(completed, p)
        ELSE /\ tasks' = [tasks EXCEPT ![p] =
                            [task EXCEPT !.st = "sleep", !.due = now + task.delay,
                                         !.errors = Append(@, exc_text)]]
             /\ completed' = completed

task_frame == <<agent_vars, cache, now, session_vars, pc, folded, results,
                partial_emitted, emitted, final_options, timed_out, accumulated>>

CallReturnsIntoFinal(p) ==
    /\ TaskRuns /\ p \in Providers
    /\ tasks[p].st = "call" /\ tasks[p].due = now /\ now < tasks[p].deadline
    /\ MayReturn(tasks[p])
    /\ \E items \in ProviderLists(agent, p) :
          /\ tasks' = [tasks EXCEPT ![p] = [@ EXCEPT !.st = "done", !.items = items]]
          /\ final_options' = IF TasksLeftRunning THEN final_options \o items
                              ELSE final_options
    /\ completed' = Append(completed, p)
    /\ UNCHANGED <<agent_vars, cache, now, session_vars, pc, folded, results,
                   partial_emitted, emitted, timed_out, accumulated>>
\* p.search_...() returns a list within the per-call timeout
CallReturns(p) ==
    /\ TaskRuns /\ p \in Providers
    /\ tasks[p].st = "call" /\ tasks[p].due = now /\ now < tasks[p].deadline
    /\ MayReturn(tasks[p])
    /\ \E items \in ProviderLists(agent, p) :
          tasks' = [tasks EXCEPT ![p] = [@ EXCEPT !.st = "done", !.items = items]]
    /\ completed' = Append(completed, p)
    /\ UNCHANGED task_frame

\* p.search_...() raises within the per-call timeout
CallRaises(p) ==
    /\ TaskRuns /\ p \in Providers
    /\ tasks[p].st = "call" /\ tasks[p].due = now /\ now < tasks[p].deadline
    /\ \E exc_text \in RaisesOf(tasks[p]) : AfterException(p, exc_text)
    /\ UNCHANGED task_frame

\* wait_for(..., PROVIDER_TIMEOUT_SECONDS) raises TimeoutError, the call
\* having been cancelled and having ended
CallTimesOut(p) ==
    /\ TaskRuns /\ p \in Providers
    /\ tasks[p].st = "call" /\ tasks[p].due = now /\ now >= tasks[p].deadline
    /\ AfterException(p, TimeoutText)
    /\ UNCHANGED task_frame

BackoffEndsSameDelay(p) ==
    /\ TaskRuns /\ p \in Providers
    /\ tasks[p].st = "sleep" /\ tasks[p].due = now
    /\ \E plan \in PlansOf(tasks[p]) :
          tasks' = [tasks EXCEPT ![p] =
                      StartCall([@ EXCEPT !.attempt = @ + 1], plan, now)]
    /\ UNCHANGED <<task_frame, completed>>
\* asyncio.sleep(delay) ends: delay *= 2 and the next attempt begins
BackoffEnds(p) ==
    /\ TaskRuns /\ p \in Providers
    /\ tasks[p].st = "sleep" /\ tasks[p].due = now
    /\ \E plan \in PlansOf(tasks[p]) :
          tasks' = [tasks EXCEPT ![p] =
                      StartCall([@ EXCEPT !.attempt = @ + 1, !.delay = 2 * @],
                                plan, now)]
    /\ UNCHANGED <<task_frame, completed>>


\* ------------------------------------------------------- run_all_providers
\* The provider whose results the orchestrator takes next.  flights: the next
\* of asyncio.as_completed, in completion order.  hotels: asyncio.gather has
\* returned, all tasks being done, and the loop walks them in registration
\* order.
NextToFold ==
    IF agent = "flights"
    THEN IF completed = <<>> THEN {} ELSE {Head(completed)}
    ELSE IF (\A p \in Providers : tasks[p].st = "done") /\ folded # Providers
         THEN {CHOOSE p \in Providers \ folded : \A q \in Providers \ folded : p <= q}
         ELSE {}

tentative_limit_fixed(limit) == TENTATIVE_CAP
\* "limit=min(3, request.limit)"
tentative_limit(limit) == Min(TENTATIVE_CAP, limit)

wants_tentative_every_fold(pool) == on_partial /\ Len(pool) > 0
\* "if on_partial and not partial_emitted and len(results) > 0"
wants_tentative(pool) == on_partial /\ ~partial_emitted /\ Len(pool) > 0

\* one pass of the loop body: results.extend(provider_results), then the
\* tentative notification.  An exception of _postprocess leaves search() with
\* the pool as it is.
Fold(p) ==
    LET pool      == results \o tasks[p].items
        tentative == postprocess(pool, request.user_preference,
                                 tentative_limit(request.limit))
        emit      == wants_tentative(pool)
    IN  /\ pc = "running" /\ p \in NextToFold
        /\ IF emit /\ tentative.raised
           THEN /\ pc' = "raised"
                /\ tasks' = <<>> /\ completed' = <<>> /\ folded' = {}
                /\ results' = pool /\ partial_emitted' = FALSE
                /\ emitted' = emitted
           ELSE /\ pc' = pc
                /\ tasks' = tasks
                /\ completed' = SelectSeq(completed, LAMBDA q : q # p)
                /\ folded' = folded \cup {p}
                /\ IF emit /\ tentative.out # <<>>
                   THEN /\ results' = Scored(pool, tentative.ranked)
                        /\ partial_emitted' = TRUE
                        /\ emitted' = Append(emitted,
                                             Response("tentative", tentative.out))
                   ELSE /\ results' = pool
                        /\ partial_emitted' = partial_emitted
                        /\ emitted' = emitted
        /\ UNCHANGED <<agent_vars, cache, now, session_vars, final_options,
                       timed_out, accumulated>>

\* run_all_providers returns results within the whole-round timeout
RunReturns ==
    /\ pc = "running" /\ folded = Providers
    /\ Finish(results)
    /\ UNCHANGED <<agent_vars, now, session_vars, timed_out, accumulated>>

RECURSIVE ItemsOf(_, _)
ItemsOf(order, i) ==
    IF i > Len(order) THEN <<>>
    ELSE tasks[order[i]].items \o ItemsOf(order, i + 1)

\* the items of the providers that have completed: those in the pool and
\* those of the done tasks not yet folded
Accumulated ==
    IF agent = "flights" THEN results \o ItemsOf(completed, 1)
    ELSE ItemsOf(SelectSeq([p \in Providers |-> p],
                           LAMBDA p : tasks[p].st = "done"), 1)

RoundDeadline == started + AGENT_TIMEOUT

\* flights: wait_for(run_all_providers(), AGENT_TIMEOUT_SECONDS) times out.
\* The awaiting coroutine is cancelled at once; the tasks as_completed
\* started are not cancelled: they stay in the event loop, and what they
\* return goes to as_completed's queue, which nothing reads any more.
FlightsRoundTimeout ==
    /\ agent = "flights" /\ pc = "running" /\ now >= RoundDeadline
    /\ timed_out' = TRUE
    /\ accumulated' = Accumulated
    /\ Returns(<<>>)
    /\ tasks' = tasks /\ completed' = <<>> /\ folded' = {}
    /\ results' = <<>> /\ partial_emitted' = FALSE
    /\ UNCHANGED <<agent_vars, now, session_vars>>

\* hotels: the same wait_for times out.  Cancelling run_all_providers cancels
\* gather, which cancels its children; wait_for returns only once they have
\* ended.  A child that is backing off ends at once, and so does a child
\* whose call wait_for has already cancelled; a child in a call ends when its
\* provider has honoured the cancellation.
HotelsRoundTimeout ==
    /\ agent = "hotels" /\ pc = "running" /\ now >= RoundDeadline
    /\ timed_out' = TRUE
    /\ accumulated' = Accumulated
    /\ pc' = "cancelling"
    /\ \E lag \in [Providers -> {0, MaxLag}] :
          /\ \A p \in Providers : lag[p] \in LagsOf(tasks[p])
          /\ tasks' = [p \in Providers |->
                         CASE tasks[p].st = "sleep" ->
                                 [tasks[p] EXCEPT !.st = "cancelled"]
                           [] tasks[p].st = "call" /\ now >= tasks[p].deadline ->
                                 [tasks[p] EXCEPT !.st = "cancelled"]
                           [] tasks[p].st = "call" /\ now < tasks[p].deadline ->
                                 [tasks[p] EXCEPT !.due = now + lag[p]]
                           [] OTHER -> tasks[p]]
    /\ UNCHANGED <<agent_vars, cache, now, session_vars, completed, folded,
                   results, partial_emitted, emitted, final_options>>

\* a provider call cancelled by the whole-round timeout has ended
CancelledCallEnds(p) ==
    /\ pc = "cancelling" /\ p \in Providers
    /\ tasks[p].st = "call" /\ tasks[p].due <= now
    /\ tasks' = [tasks EXCEPT ![p] = [@ EXCEPT !.st = "cancelled"]]
    /\ UNCHANGED <<task_frame, completed>>

\* every child has ended: wait_for raises TimeoutError, all_results = []
CancellationEnds ==
    /\ pc = "cancelling"
    /\ \A p \in Providers : tasks[p].st # "call"
    /\ Finish(<<>>)
    /\ UNCHANGED <<agent_vars, now, session_vars, timed_out, accumulated>>

\* -------------------------------------------------------------------- time
\* when the next timer fires
Timers ==
    {tasks[p].due : p \in {q \in Providers : tasks[q].st \in {"call", "sleep"}}}
      \cup (IF pc = "running" THEN {RoundDeadline} ELSE {})

\* Time passes to the next timer; not while something is ready to run.
Tick ==
    /\ pc \in {"running", "cancelling"} \/ TasksLeftRunning
    /\ pc = "running" => NextToFold = {} /\ folded # Providers
    /\ Timers # {}
    /\ \A t \in Timers : t > now
    /\ now' = CHOOSE t \in Timers : \A u \in Timers : t <= u
    /\ UNCHANGED <<agent_vars, cache, session_vars, pc, tasks, completed, folded,
                   results, partial_emitted, emitted, final_options, timed_out,
                   accumulated>>

\* ---------------------------------------------------------- specifications
\* One search on a fresh agent, against every behaviour of its providers.
Next ==
    \/ /\ rounds = 0
       /\ \E pref \in Preferences, v \in LimitInputs, cb \in BOOLEAN,
             uc \in BOOLEAN, profile \in [Providers -> ProfilesOf(providers)] :
             SearchFanOut(pref, v, cb, uc, 1, profile)
    \/ \E p \in Providers : CallReturns(p)
    \/ \E p \in Providers : CallRaises(p)
    \/ \E p \in Providers : CallTimesOut(p)
    \/ \E p \in Providers : BackoffEnds(p)
    \/ \E p \in Providers : Fold(p)
    \/ RunReturns
    \/ FlightsRoundTimeout
    \/ HotelsRoundTimeout
    \/ \E p \in Providers : CancelledCallEnds(p)
    \/ CancellationEnds
    \/ Tick

Spec == Init /\ [][Next]_vars

\* Up to MaxRounds searches in a row on one agent whose providers answer at
\* the first attempt: what the cache of a HotelsAgent does between searches.
InitCache == Init /\ providers > 0

NextCache ==
    \/ /\ rounds < MaxRounds /\ Idle
       /\ \E pref \in Preferences, v \in LimitInputs, cb \in BOOLEAN, gap \in Gaps :
             SearchFromCache(pref, v, cb, gap)
    \/ /\ rounds < MaxRounds /\ Idle
       /\ \E pref \in Preferences, v \in LimitInputs, cb \in BOOLEAN,
             uc \in BOOLEAN, gap \in Gaps :
             SearchFanOut(pref, v, cb, uc, gap, [p \in Providers |-> "reliable"])
    \/ \E p \in Providers : CallReturns(p)
    \/ \E p \in Providers : Fold(p)
    \/ RunReturns
    \/ Tick

SpecCache == InitCache /\ [][NextCache]_vars

\* The construction of a request with any limit.
NextRequest ==
    \E pref \in Preferences, v \in -MaxLimitArg..MaxLimitArg : Construct(pref, v)

SpecRequest == Init /\ [][NextRequest]_vars

\* One search on an agent with MixedProviders providers of which exactly one
\* answers with a list, at least one reports a business error and at least one
\* fails at every attempt, in every registration order.
InitMixed ==
    /\ agent \in {"flights", "hotels"}
    /\ providers = MixedProviders
    /\ cache = <<>> /\ now = 0 /\ rounds = 0 /\ pc = "idle"
    /\ limit_arg = 0 /\ request = NoRequest
    /\ on_partial = FALSE /\ use_cache = FALSE /\ started = 0
    /\ tasks = <<>> /\ completed = <<>> /\ folded = {}
    /\ results = <<>> /\ partial_emitted = FALSE /\ emitted = <<>>
    /\ final_options = <<>> /\ timed_out = FALSE /\ accumulated = <<>>
    /\ searches = <<>>
    /\ hard_filters = FALSE /\ ServicesIdle

MixedProfiles ==
    {profile \in [Providers -> {"reliable", "no_inventory", "down"}] :
        /\ Cardinality({p \in Providers : profile[p] = "reliable"}) = 1
        /\ \E p \in Providers : profile[p] = "no_inventory"
        /\ \E p \in Providers : profile[p] = "down"}

NextMixed ==
    \/ /\ rounds = 0
       /\ \E pref \in Preferences, v \in LimitInputs, cb \in BOOLEAN,
             uc \in BOOLEAN, profile \in MixedProfiles :
             SearchFanOut(pref, v, cb, uc, 1, profile)
    \/ \E p \in Providers : CallReturns(p)
    \/ \E p \in Providers : CallRaises(p)
    \/ \E p \in Providers : BackoffEnds(p)
    \/ \E p \in Providers : Fold(p)
    \/ RunReturns
    \/ Tick

SpecMixed == InitMixed /\ [][NextMixed]_vars

\* Calls of search() running concurrently on one HotelsAgent, as asyncio
\* interleaves them: a coroutine runs without interruption between two awaits,
\* so each call is two blocks around `await wait_for(run_all_providers())`:
\* the cache lookup, and _postprocess with the cache update.  What
\* run_all_providers hands over is any pool the providers can give.
NoSearch ==
    [pc |-> "idle", request |-> NoRequest, use_cache |-> FALSE,
     overlapped |-> FALSE, returned_at |-> 0, final |-> <<>>,
     from_cache |-> FALSE, wrote |-> FALSE]

InitConcurrent ==
    /\ agent = "hotels"
    /\ providers = 2
    /\ searches = [s \in 1..MaxSearches |-> NoSearch]
    /\ hard_filters = FALSE /\ ServicesIdle
    /\ cache = <<>> /\ now = 0 /\ rounds = 0 /\ pc = "idle"
    /\ limit_arg = 0 /\ request = NoRequest
    /\ on_partial = FALSE /\ use_cache = FALSE /\ started = 0
    /\ tasks = <<>> /\ completed = <<>> /\ folded = {}
    /\ results = <<>> /\ partial_emitted = FALSE /\ emitted = <<>>
    /\ final_options = <<>> /\ timed_out = FALSE /\ accumulated = <<>>

single_search_vars ==
    <<agent, providers, rounds, pc, limit_arg, request, on_partial, use_cache,
      started, tasks, completed, folded, results, partial_emitted, emitted,
      final_options, timed_out, accumulated, hard_filters, fetch, client,
      app_state>>

\* all_results: [] after the whole-round timeout, else the providers' lists in
\* registration order
ConcurrentPools ==
    {l1 \o l2 : l1 \in {l \in HotelLists(1) : Len(l) # 1},
                l2 \in {l \in HotelLists(2) :
                           Len(l) <= 1 /\ \A i \in 1..Len(l) : l[i].rating # None}}

\* search(), from its call to its first await or its return from the cache
SearchBegins(s, pref, v, uc) ==
    LET req     == NewRequest(pref, v)
        key     == hotels_cache_key(req)
        present == uc /\ key \in DOMAIN cache
        hit     == present /\ cache_entry_fresh(cache[key], now)
    IN  /\ searches[s].pc = "idle"
        /\ \A r \in DOMAIN searches : r < s => searches[r].pc # "idle"
        /\ searches' = [searches EXCEPT ![s] =
              [pc |-> IF hit THEN "returned" ELSE "running",
               request |-> req, use_cache |-> uc,
               overlapped |-> \E r \in DOMAIN searches : searches[r].pc = "running",
               returned_at |-> IF hit THEN now ELSE 0,
               final |-> IF hit THEN Take(cache[key].options, req.limit) ELSE <<>>,
               from_cache |-> hit, wrote |-> FALSE]]
        /\ cache' = IF present /\ ~hit
                    THEN [k \in DOMAIN cache \ {key} |-> cache[k]]
                    ELSE cache
        /\ UNCHANGED <<single_search_vars, now>>

\* search(), from the return of wait_for to its end
SearchEnds(s, all_results) ==
    LET req   == searches[s].request
        pp    == hotels_postprocess(all_results, req.user_preference, req.limit)
        write == ~pp.raised /\ searches[s].use_cache /\ pp.out # <<>>
    IN  /\ searches[s].pc = "running"
        /\ searches' = [searches EXCEPT ![s] =
              [@ EXCEPT !.pc = IF pp.raised THEN "raised" ELSE "returned",
                        !.returned_at = now, !.final = pp.out, !.wrote = write]]
        /\ cache' = IF write
                    THEN cache_write(cache, hotels_cache_key(req), now, pp.out)
                    ELSE cache
        /\ UNCHANGED <<single_search_vars, now>>

\* time passes: a tick while a search is running, the cache lifetime between
\* searches
TimePasses(d) ==
    /\ d = HOTEL_CACHE_TTL <=> \A s \in DOMAIN searches : searches[s].pc # "running"
    /\ d = 1 => now % HOTEL_CACHE_TTL < MaxSearches - 1
    /\ now + d < 2 * HOTEL_CACHE_TTL
    /\ now' = now + d
    /\ UNCHANGED <<single_search_vars, cache, searches>>

NextConcurrent ==
    \/ \E s \in DOMAIN searches, pref \in Preferences, v \in LimitInputs,
          uc \in BOOLEAN : SearchBegins(s, pref, v, uc)
    \/ \E s \in DOMAIN searches, all_results \in ConcurrentPools :
          SearchEnds(s, all_results)
    \/ \E d \in {1, HOTEL_CACHE_TTL} : TimePasses(d)

SpecConcurrent == InitConcurrent /\ [][NextConcurrent]_vars

\* dedupe_* and rank_* as functions of their arguments: any sequence of up
\* to MaxItems options.  The options are distinct objects (their ids differ);
\* some share their dedupe key, and their price, rating and score vary; a
\* score other than None is what an earlier call of rank_* left on the object.
FlightShapes ==
    {[FlightOption(1, "0", Some("AI"), Some("302"), amount, 0, <<"P","T","2","H">>)
         EXCEPT !.score = score] :
        amount \in {100, 200}, score \in {None, Some(10000), Some(90000)}}
      \cup {FlightOption(1, "0", Some("BA"), Some("117"), 50, 1, <<"P","T","4","H">>),
            FlightOption(1, "0", None, None, 100, 2, <<"P","T","4","5","M">>)}

HotelShapes ==
    {[HotelOption(1, "0", Some(Ritz), Some(MainSt), rating, price,
                  515010, -1200, None)
         EXCEPT !.score = score] :
        rating \in {None, Some(3), Some(4)},
        price \in {None, Some(100), Some(200)},
        score \in {None, Some(90000)}}
      \cup {HotelOption(1, "0", Some(Ibis), None, Some(3), Some(50),
                        515020, -1300, Some(12)),
            HotelOption(1, "0", Some(RitzLoud), Some(MainSt), Some(4), Some(100),
                        515010, -1200, None),
            HotelOption(1, "0", Some(Ritz), Some(HighSt), Some(4), Some(100),
                        515010, -1200, None),
            HotelOption(1, "0", None, None, Some(3), None, 515020, -1300, None),
            HotelOption(1, "0", Some(Ibis), None, Some(3), Some(50),
                        515024, -1296, Some(12))}

Numbered(options) ==
    [i \in 1..Len(options) |-> [options[i] EXCEPT !.id = Digits[i + 1]]]

OptionSequences ==
    LET shapes == IF agent = "flights" THEN FlightShapes ELSE HotelShapes
    IN  {Numbered(options) :
            options \in UNION {[1..n -> shapes] : n \in 0..MaxItems}}

InitPure ==
    /\ agent \in {"flights", "hotels"}
    /\ providers = 0
    /\ results \in OptionSequences
    /\ cache = <<>> /\ now = 0 /\ rounds = 0 /\ pc = "idle"
    /\ limit_arg = 0 /\ request = NoRequest
    /\ on_partial = FALSE /\ use_cache = FALSE /\ started = 0
    /\ tasks = <<>> /\ completed = <<>> /\ folded = {}
    /\ partial_emitted = FALSE /\ emitted = <<>>
    /\ final_options = <<>> /\ timed_out = FALSE /\ accumulated = <<>>
    /\ searches = <<>>
    /\ hard_filters = FALSE /\ ServicesIdle

\* dedupe_* of the agent's option type
dedupe(options) ==
    IF agent = "flights" THEN [raised |-> FALSE, out |-> dedupe_flights(options)]
    ELSE dedupe_hotels(options)

\* rank_* of the agent's option type
rank(options, preference) ==
    IF agent = "flights"
    THEN [raised |-> FALSE, out |-> rank_flights(options, preference)]
    ELSE rank_hotels(options, preference)

\* dedupe_*(results): final_options is the list it returns
Dedupe ==
    /\ pc = "idle"
    /\ pc' = IF dedupe(results).raised THEN "raised" ELSE "deduped"
    /\ final_options' = dedupe(results).out
    /\ UNCHANGED <<agent_vars, cache, now, session_vars, tasks, completed, folded,
                   results, partial_emitted, emitted, timed_out, accumulated>>

\* rank_*(results, preference): final_options is the list it returns; the
\* scores are written onto the objects of results
Rank(pref) ==
    /\ pc = "idle"
    /\ limit_arg' = MAX_RESULTS_PER_AGENT
    /\ request' = NewRequest(pref, MAX_RESULTS_PER_AGENT)
    /\ pc' = IF rank(results, pref).raised THEN "raised" ELSE "ranked"
    /\ final_options' = rank(results, pref).out
    /\ results' = Scored(results, rank(results, pref).out)
    /\ UNCHANGED <<agent_vars, cache, now, rounds, on_partial, use_cache, started,
                   tasks, completed, folded, partial_emitted, emitted, timed_out,
                   accumulated>>

\* a string that is no member of FlightUserPreference / HotelUserPreference
PrefFastest == <<"F","a","s","t","e","s","t">>

\* the preferences rank_* is called with: those of the searches, and absent,
\* empty, "balanced" and unrecognized
RankPreferences ==
    Preferences \cup {Some(<<>>), Some(PrefBalanced), Some(PrefFastest)}

NextPure ==
    \/ Dedupe
    \/ \E pref \in RankPreferences : Rank(pref)

SpecPure == InitPure /\ [][NextPure]_vars


\* ------------------------------------------------------------------ claims
Tentatives == {i \in 1..Len(emitted) : emitted[i].status = "tentative"}
Finals == {i \in 1..Len(emitted) : emitted[i].status = "final"}

\* the task of provider p ended with the exception of its i-th failed attempt
EndedByError(p, i) ==
    /\ tasks[p].st = "done"
    /\ Len(tasks[p].errors) = i
    /\ tasks[p].attempt = i - 1

\* C1: whatever its providers do, search() of either agent returns a list and
\* never raises.
C1_SearchNeverRaises == pc # "raised"

\* C2: every list search() returns, from the fan-out or from the cache, and
\* every list it gives to on_partial as final, has at most request.limit
\* entries, and request.limit is at most 5.
C2_ListsWithinLimit ==
    /\ request.limit <= 5
    /\ Len(final_options) <= request.limit
    /\ \A i \in Finals : Len(emitted[i].options) <= request.limit

\* a search served from the cache, whose entry is longer than the limit asked
C2_CachedListCut ==
    /\ pc = "returned" /\ agent = "hotels" /\ started = now /\ rounds > 1
    /\ hotels_cache_key(request) \in DOMAIN cache
    /\ Len(cache[hotels_cache_key(request)].options) > request.limit
    /\ Len(final_options) = request.limit
    /\ Finals # {}

\* C3: a request can be constructed with any integer limit v, and its limit is
\* then 1 if v < 1, 5 if v > 5, and v otherwise.
C3_LimitClamped ==
    /\ pc = "idle" =>
          \A pref \in Preferences, v \in -MaxLimitArg..MaxLimitArg :
              ENABLED Construct(pref, v)
    /\ request # NoRequest =>
          request.limit = (IF limit_arg < 1 THEN 1
                           ELSE IF limit_arg > 5 THEN 5 ELSE limit_arg)

C3_ClampedFromAbove == request # NoRequest /\ limit_arg > 5 /\ request.limit = 5

\* C4: with an on_partial callback, the step that first makes the pool
\* non-empty gives on_partial its one tentative response; a tentative response
\* is never given a second time, and never while the pool is empty.
C4_TentativeOnceAtFirstItems ==
    [][/\ (pc = "running" /\ on_partial /\ results = <<>> /\ results' # <<>>)
             => (emitted = <<>> /\ Len(emitted') = 1
                 /\ emitted'[1].status = "tentative")
       /\ (Len(emitted') > Len(emitted)
           /\ emitted'[Len(emitted')].status = "tentative")
             => (results' # <<>> /\ Tentatives = {})]_vars

\* C5: within one search() on_partial is called at most twice: at most one
\* tentative response and at most one final response, the tentative one first;
\* the final one is given exactly when the returned list is non-empty.
C5_AtMostTwoNotifications ==
    /\ Len(emitted) <= 2
    /\ Cardinality(Tentatives) <= 1
    /\ Cardinality(Finals) <= 1
    /\ \A i \in Finals : i = Len(emitted) /\ emitted[i].options = final_options
    /\ ~on_partial => emitted = <<>>
    /\ pc \in {"running", "cancelling"} => Finals = {}
    /\ (pc = "returned" /\ on_partial) => (Finals # {} <=> final_options # <<>>)

C5_TentativeThenFinal ==
    /\ pc = "returned" /\ Len(emitted) = 2
    /\ emitted[1].status = "tentative" /\ emitted[2].status = "final"

\* C6: when the whole-round deadline expires, the final list is computed from
\* the items of the providers that had completed by then.
C6_TimeoutKeepsCompleted ==
    (timed_out /\ pc = "returned") =>
        final_options =
            postprocess(accumulated, request.user_preference, request.limit).out

\* C7: a provider's items are folded into the pool when its task completes,
\* in completion order: no time passes while a completed provider waits to be
\* folded, and the provider folded is the one that completed first.
C7_FoldedOnCompletion ==
    [][/\ (pc = "running"
           /\ \E p \in DOMAIN tasks : tasks[p].st = "done" /\ p \notin folded)
             => now' = now
       /\ (pc = "running" /\ pc' = "running" /\ folded' # folded)
             => folded' = folded \cup {Head(completed)}]_vars

\* C8: _with_retries never raises: a task is calling, backing off, done or
\* cancelled; it makes at most PROVIDER_MAX_RETRIES + 1 attempts, and when
\* all of them have failed it has returned the empty list.
C8_RetriesExhaustedReturnsEmpty ==
    \A p \in DOMAIN tasks :
        /\ tasks[p].st \in {"call", "sleep", "done", "cancelled"}
        /\ tasks[p].attempt <= PROVIDER_MAX_RETRIES
        /\ Len(tasks[p].errors) <= PROVIDER_MAX_RETRIES + 1
        /\ Len(tasks[p].errors) = PROVIDER_MAX_RETRIES + 1
              => tasks[p].st = "done" /\ tasks[p].items = <<>>

C8_AllAttemptsFailed ==
    \E p \in DOMAIN tasks :
        /\ Len(tasks[p].errors) = PROVIDER_MAX_RETRIES + 1
        /\ tasks[p].st = "done"

C10_TimeoutsAbsorbedWithinDeadline ==
    /\ \A p \in DOMAIN tasks :
          (/\ tasks[p].st = "done"
           /\ Len(tasks[p].errors) = PROVIDER_MAX_RETRIES + 1
           /\ \A i \in 1..Len(tasks[p].errors) : tasks[p].errors[i] = TimeoutText)
             => tasks[p].items = <<>>
    /\ (pc = "returned" /\ ~TasksLeftRunning) => now <= started + AGENT_TIMEOUT

\* the provider of the round that answers with a list
Successful == CHOOSE p \in Providers : tasks[p].profile = "reliable"

\* a running round can take a step: a task's call or backoff is pending, a
\* completed task waits to be folded, or every task has been folded
RoundCanProceed ==
    \/ \E p \in Providers : tasks[p].st \in {"call", "sleep"} /\ tasks[p].due >= now
    \/ NextToFold # {}
    \/ folded = Providers

\* C11: with one provider returning items, one reporting a business error and
\* one failing at every attempt, the round is never held up and ends before
\* the whole-round deadline, and its outcome is that of _postprocess on the
\* successful provider's items alone: the other providers' tasks end with the
\* empty list and the pool holds the successful provider's items and nothing
\* else.
C11_OnlySuccessfulProviderCounts ==
    /\ [](pc = "running" => (now < RoundDeadline /\ RoundCanProceed))
    /\ [][(pc = "running" /\ pc' # "running") =>
            LET pp == postprocess(tasks[Successful].items,
                                  request.user_preference, request.limit)
            IN  /\ \A p \in Providers \ {Successful} :
                      tasks[p].st = "done" /\ tasks[p].items = <<>>
                /\ pc' = "returned" =>
                      [i \in 1..Len(results) |-> results[i].id]
                         = [i \in 1..Len(tasks[Successful].items) |->
                               tasks[Successful].items[i].id]
                /\ ~timed_out'
                /\ pc' = (IF pp.raised THEN "raised" ELSE "returned")
                /\ final_options' = pp.out]_vars

C11_MixedRoundReturned ==
    /\ pc = "returned" /\ providers = MixedProviders
    /\ final_options # <<>> /\ Len(final_options) = request.limit
    /\ Len(emitted) = 2

\* a step that is a call of search(), and one that is served from the cache
SearchStarts == rounds' = rounds + 1
ServedFromCache == rounds' = rounds + 1 /\ pc' = "returned"

\* the state in which search() has just returned from the cache-hit branch
\* (a fan-out with providers returns after the first call's duration at least)
CacheHitReturned ==
    agent = "hotels" /\ pc = "returned" /\ rounds >= 1 /\ started = now

\* the state in which search() has returned after a fan-out
FanOutReturned ==
    agent = "hotels" /\ pc = "returned" /\ rounds >= 1 /\ started < now

\* C12: when a hotels search with use_cache has returned a non-empty list L, the
\* same request made again with use_cache before the entry's expires_at returns
\* L at once and starts no provider task.
C12_IdenticalRequestServedFromCache ==
    [][(/\ agent = "hotels" /\ pc = "returned" /\ use_cache
        /\ final_options # <<>>
        /\ SearchStarts /\ request' = request /\ use_cache'
        /\ now' < cache[hotels_cache_key(request)].expires_at)
         => (/\ pc' = "returned"
             /\ final_options' = final_options
             /\ tasks' = <<>>
             /\ started' = now')]_vars

C12_SecondSearchFromCache ==
    /\ CacheHitReturned /\ rounds = 2 /\ use_cache /\ tasks = <<>>
    /\ Len(final_options) >= 2
    /\ now < cache[hotels_cache_key(request)].expires_at
    /\ final_options = cache[hotels_cache_key(request)].options

\* C13: requests that differ in user_preference have different cache keys, so
\* a request served from the cache entry that the preceding search wrote has
\* that search's user_preference.
C13_CacheKeyCoversPreference ==
    [][(/\ agent = "hotels" /\ FanOutReturned /\ use_cache /\ final_options # <<>>
        /\ ServedFromCache)
         => request'.user_preference = request.user_preference]_vars

\* C14: a search served from the cache with an on_partial callback has called
\* it exactly once, with status final and the returned list, and never with
\* status tentative; no cache entry holds an empty list.
C14_CacheHitOneFinal ==
    /\ \A k \in DOMAIN cache : cache[k].options # <<>>
    /\ (CacheHitReturned /\ on_partial) =>
          (final_options # <<>> /\ emitted = <<Response("final", final_options)>>)
    /\ (CacheHitReturned /\ ~on_partial) => emitted = <<>>

C14_CacheHitNotified ==
    /\ CacheHitReturned /\ on_partial /\ rounds = 2
    /\ Len(emitted) = 1 /\ emitted[1].status = "final"
    /\ emitted[1].options = final_options

\* C15: a search is served from the cache only by an entry whose expires_at is
\* later than the time of the call; a search with use_cache that finds an
\* entry at or past its expires_at removes it and starts the provider tasks;
\* and no entry leaves the cache in any other way.
C15_ExpiredEntryNeverServed ==
    [][agent = "hotels" =>
        LET key == hotels_cache_key(request')
        IN  /\ ServedFromCache =>
                 (/\ key \in DOMAIN cache
                  /\ cache[key].expires_at > now'
                  /\ cache' = cache)
            /\ (/\ SearchStarts /\ use_cache' /\ key \in DOMAIN cache
                /\ cache[key].expires_at <= now')
                 => (/\ pc' = "running"
                     /\ key \notin DOMAIN cache'
                     /\ \A p \in Providers : tasks'[p].st = "call")
            /\ \A k \in DOMAIN cache :
                  \/ /\ k \in DOMAIN cache'
                     /\ (cache'[k] # cache[k] =>
                           pc' = "returned" /\ k = hotels_cache_key(request))
                  \/ /\ SearchStarts /\ use_cache' /\ k = key
                     /\ cache[k].expires_at <= now']_vars

C15_ExpiredEntryEvicted ==
    /\ agent = "hotels" /\ pc = "running" /\ rounds = 2 /\ use_cache
    /\ started >= HOTEL_CACHE_TTL /\ started = now
    /\ hotels_cache_key(request) \notin DOMAIN cache

\* C16: when a hotels search with use_cache has gone through the fan-out and
\* returned a non-empty list, the cache entry of the request's key holds that
\* list and expires 300 seconds after the time of the write.
C16_FinalListCachedForTtl ==
    (FanOutReturned /\ use_cache /\ final_options # <<>>) =>
        /\ hotels_cache_key(request) \in DOMAIN cache
        /\ cache[hotels_cache_key(request)] =
              [expires_at |-> now + 300 * TICKS_PER_SECOND,
               options |-> final_options]

C16_EntryReplacedAfterExpiry ==
    /\ FanOutReturned /\ use_cache /\ final_options # <<>> /\ rounds = 2
    /\ started >= HOTEL_CACHE_TTL
    /\ cache[hotels_cache_key(request)].expires_at = now + HOTEL_CACHE_TTL

\* the options of the input that share the dedupe key of r and are not r
Discarded(r) ==
    {i \in 1..Len(results) :
        /\ ~SameObject(results[i], r)
        /\ IF agent = "flights"
           THEN flights_dedupe_key(results[i]) = flights_dedupe_key(r)
           ELSE hotels_dedupe_key(results[i]) = hotels_dedupe_key(r)}

\* C17: dedupe_flights and dedupe_hotels, applied to a list they returned,
\* return that list.
C17_DedupeIdempotent ==
    pc = "deduped" => dedupe(final_options) = [raised |-> FALSE, out |-> final_options]

C17_DuplicatesCollapsed ==
    /\ pc = "deduped" /\ Len(results) = 3 /\ Len(final_options) = 2
    /\ \E i \in 1..Len(final_options) : Cardinality(Discarded(final_options[i])) = 1

\* C18: of the hotels that share a dedupe key, dedupe_hotels retains one whose
\* rating is higher than that of each discarded one, or equal with a price not
\* above it when both prices are known, whatever their scores.
C18_HotelsRetainedIsBestRated ==
    (pc = "deduped" /\ agent = "hotels") =>
        \A j \in 1..Len(final_options) : \A i \in Discarded(final_options[j]) :
            LET r == final_options[j]
                o == results[i]
            IN  /\ ~IsNone(r.rating) /\ ~IsNone(o.rating)
                /\ \/ Val(r.rating) > Val(o.rating)
                   \/ /\ Val(r.rating) = Val(o.rating)
                      /\ (~IsNone(r.price) /\ ~IsNone(o.price))
                            => Val(r.price) <= Val(o.price)

\* C19: of the flights that share a dedupe key, dedupe_flights retains one
\* whose price is not above that of any discarded one, whatever their scores.
C19_FlightsRetainedIsCheapest ==
    (pc = "deduped" /\ agent = "flights") =>
        \A j \in 1..Len(final_options) : \A i \in Discarded(final_options[j]) :
            final_options[j].price <= results[i].price

\* where the object o stands in the input of rank_*
InputPosition(o) == CHOOSE i \in 1..Len(results) : SameObject(results[i], o)

\* C20: rank_flights and rank_hotels return the objects of their input, each
\* once, with scores that do not increase along the list; objects of equal
\* score stand in their input order; and a second call on the same objects
\* with the same preference returns the same list.
C20_RankStablePermutation ==
    pc = "ranked" =>
        /\ Len(final_options) = Len(results)
        /\ \A i \in 1..Len(results) :
              Cardinality({j \in 1..Len(final_options) :
                              final_options[j] = results[i]}) = 1
        /\ \A i, j \in 1..Len(final_options) :
              i < j =>
                 /\ score_or_zero(final_options[i]) >= score_or_zero(final_options[j])
                 /\ score_or_zero(final_options[i]) = score_or_zero(final_options[j])
                       => InputPosition(final_options[i]) < InputPosition(final_options[j])
        /\ rank(results, request.user_preference)
              = [raised |-> FALSE, out |-> final_options]

C20_TieKeptAndOrderChanged ==
    /\ pc = "ranked" /\ Len(final_options) = 3
    /\ score_or_zero(final_options[1]) = score_or_zero(final_options[2])
    /\ score_or_zero(final_options[2]) > score_or_zero(final_options[3])
    /\ InputPosition(final_options[3]) = 1

\* _base_score of the agent's option type
base_score(option) ==
    IF agent = "flights" THEN flights_base_score(option)
    ELSE hotels_base_score(option)

\* C21: rank_* with no preference, the empty string or an unrecognized string
\* returns what it returns with "balanced", scores and order, and each score
\* is the option's base score.
C21_NoPreferenceIsBalanced ==
    (/\ pc = "ranked"
     /\ request.user_preference
           \in {None, Some(<<>>), Some(PrefFastest), Some(PrefBalanced)}) =>
        /\ rank(results, Some(PrefBalanced)) = [raised |-> FALSE, out |-> final_options]
        /\ \A i \in 1..Len(final_options) :
              final_options[i].score = Some(base_score(final_options[i]))

C21_UnrecognizedRanked ==
    /\ pc = "ranked" /\ request.user_preference = Some(PrefFastest)
    /\ Len(final_options) = 3
    /\ InputPosition(final_options[1]) = 3
    /\ final_options[1].score # final_options[3].score

\* C22: once search() has returned or raised, no step changes the returned
\* list, the notifications given or the cache, whatever the provider tasks
\* still in flight return; and a round that timed out has written no cache
\* entry.
C22_LateResultsDropped ==
    /\ []((timed_out /\ pc = "returned") => (cache = <<>> /\ final_options = <<>>))
    /\ [][(pc = "returned" \/ pc = "raised") =>
            (/\ pc' = pc
             /\ final_options' = final_options
             /\ emitted' = emitted
             /\ cache' = cache)]_vars

C22_LateListArrived ==
    /\ pc = "returned" /\ timed_out /\ on_partial /\ now > RoundDeadline
    /\ \E p \in DOMAIN tasks : tasks[p].st = "done" /\ tasks[p].items # <<>>
    /\ final_options = <<>> /\ emitted = <<>>

\* C23: search() on an agent with no providers returns the empty list at
\* once, without raising, gives no notification and leaves the cache as it
\* was.
C23_NoProvidersEmptyList ==
    providers = 0 =>
        /\ pc \in {"idle", "running", "returned"}
        /\ pc = "running" => (folded = Providers /\ now = started)
        /\ pc = "returned" => (now = started /\ ~timed_out)
        /\ final_options = <<>>
        /\ emitted = <<>>
        /\ cache = <<>>

C23_NoProvidersReturned ==
    /\ providers = 0 /\ pc = "returned" /\ agent = "hotels"
    /\ on_partial /\ use_cache
    /\ final_options = <<>>

\* the pool as the providers returned it, no score written on any item
Unscored(pool) == [i \in 1..Len(pool) |-> [pool[i] EXCEPT !.score = None]]

\* the items of all providers in registration order
AllItems == ItemsOf([p \in Providers |-> p], 1)

\* C24: the list search() returns is the one it returns without on_partial:
\* _postprocess of the pool with no score written by the tentative pass gives
\* the same list, and search() raises exactly when that would raise.
C24_CallbackDoesNotChangeFinal ==
    [][/\ (pc = "running" /\ pc' = "returned" /\ ~timed_out') =>
              final_options' =
                  postprocess(Unscored(results), request.user_preference,
                              request.limit).out
       /\ (pc = "running" /\ pc' = "raised" /\ folded = Providers) =>
              postprocess(Unscored(results), request.user_preference,
                          request.limit).raised
       /\ (pc = "running" /\ pc' = "raised" /\ folded # Providers) =>
              postprocess(AllItems, request.user_preference,
                          request.limit).raised]_vars

\* the final pass is about to run on a pool where the tentative pass has
\* scored one item of a key and a later item of that key has no score
C24_ScoredAndUnscoredDuplicates ==
    /\ pc = "running" /\ folded = Providers /\ partial_emitted
    /\ \E i, j \in 1..Len(results) :
          /\ i < j
          /\ ~SameObject(results[i], results[j])
          /\ IF agent = "flights"
             THEN flights_dedupe_key(results[i]) = flights_dedupe_key(results[j])
             ELSE hotels_dedupe_key(results[i]) = hotels_dedupe_key(results[j])
          /\ results[i].score # None /\ results[j].score = None

\* _dedupe_key of the agent's option type
dedupe_key(option) ==
    IF agent = "flights" THEN flights_dedupe_key(option)
    ELSE hotels_dedupe_key(option)

\* C25: what dedupe_* returns holds objects of its input only, no two of the
\* same key, and one for every key of the input, the keys of items without
\* identity fields included.
C25_OneItemPerKey ==
    pc = "deduped" =>
        /\ \A j \in 1..Len(final_options) :
              \E i \in 1..Len(results) : results[i] = final_options[j]
        /\ \A i, j \in 1..Len(final_options) :
              i # j => dedupe_key(final_options[i]) # dedupe_key(final_options[j])
        /\ \A i \in 1..Len(results) :
              \E j \in 1..Len(final_options) :
                  dedupe_key(final_options[j]) = dedupe_key(results[i])

C25_AbsentIdentityKept ==
    /\ pc = "deduped" /\ Len(results) = 3 /\ Len(final_options) = 2
    /\ \E j \in 1..Len(final_options) :
          /\ IF agent = "flights" THEN IsNone(final_options[j].carrier_code)
             ELSE IsNone(final_options[j].name)
          /\ Cardinality(Discarded(final_options[j])) = 1

\* the input of dedupe_* in every order
Reorderings(options) ==
    {[i \in 1..Len(options) |-> options[f[i]]] :
        f \in {g \in [1..Len(options) -> 1..Len(options)] :
                  \A i, j \in 1..Len(options) : i # j => g[i] # g[j]}}

\* C26: dedupe_* retains the same object of every key in whatever order its
\* input is given.
C26_RetainedWhateverTheOrder ==
    pc = "deduped" =>
        \A permuted \in Reorderings(results) :
            /\ ~dedupe(permuted).raised
            /\ {dedupe(permuted).out[j] : j \in 1..Len(dedupe(permuted).out)}
                 = {final_options[j] : j \in 1..Len(final_options)}

\* the options in a list whose name is one of `names` and whose address is
\* `address`
Named(options, names, address) ==
    {i \in 1..Len(options) :
        options[i].name \in names /\ options[i].address = address}

\* C27: hotels whose names and addresses differ in case and surrounding
\* whitespace only are one hotel; hotels with both fields present and different
\* addresses are two; without an address the key is the name and the
\* coordinates rounded to three decimals.
C27_HotelKeyNormalized ==
    (pc = "deduped" /\ agent = "hotels") =>
        LET RitzMain  == {Some(Ritz), Some(RitzLoud)}
            IN_(names, address)  == Named(results, names, address)
            OUT_(names, address) == Named(final_options, names, address)
        IN  /\ Cardinality(OUT_(RitzMain, Some(MainSt))) <= 1
            /\ IN_(RitzMain, Some(MainSt)) # {} => OUT_(RitzMain, Some(MainSt)) # {}
            /\ IN_({Some(Ritz)}, Some(HighSt)) # {} => OUT_({Some(Ritz)}, Some(HighSt)) # {}
            /\ Cardinality(OUT_({Some(Ibis)}, None)) <= 1
            /\ IN_({Some(Ibis)}, None) # {} => OUT_({Some(Ibis)}, None) # {}
            /\ IN_({None}, None) # {} => OUT_({None}, None) # {}

C27_CaseCollapsedAddressKept ==
    /\ pc = "deduped" /\ agent = "hotels"
    /\ Len(results) = 3 /\ Len(final_options) = 2
    /\ Named(results, {Some(Ritz)}, Some(MainSt)) # {}
    /\ Named(results, {Some(RitzLoud)}, Some(MainSt)) # {}
    /\ Named(final_options, {Some(Ritz)}, Some(HighSt)) # {}

\* C28: a provider task makes at most PROVIDER_MAX_RETRIES + 1 attempts and
\* none once an attempt has returned, the empty list included; after the first
\* failed attempt it sleeps 0.5 s and after the second 1.0 s, each sleep
\* followed at its end by the next attempt; after the last failed attempt it
\* returns without sleeping.
C28_BackoffSchedule ==
    /\ [](\A p \in DOMAIN tasks :
             /\ tasks[p].attempt + 1 <= PROVIDER_MAX_RETRIES + 1
             /\ tasks[p].st = "sleep" =>
                   /\ tasks[p].attempt < PROVIDER_MAX_RETRIES
                   /\ Len(tasks[p].errors) = tasks[p].attempt + 1
                   /\ tasks[p].due <= now + tasks[p].delay
                   /\ tasks[p].delay =
                         IF tasks[p].attempt = 0 THEN TICKS_PER_SECOND \div 2
                         ELSE TICKS_PER_SECOND)
    /\ [][\A p \in DOMAIN tasks \cap DOMAIN tasks' :
             /\ tasks[p].st = "done" => tasks'[p] = tasks[p]
             /\ (tasks[p].st = "call" /\ tasks'[p].st = "sleep") =>
                   tasks'[p].due = now + tasks'[p].delay
             /\ (tasks[p].st = "call" /\ tasks[p].attempt = PROVIDER_MAX_RETRIES) =>
                   tasks'[p].st \in {"call", "done", "cancelled"}
             /\ (tasks[p].st = "sleep" /\ tasks'[p].st = "call") =>
                   /\ now = tasks[p].due
                   /\ tasks'[p].attempt = tasks[p].attempt + 1]_vars

\* the second backoff of a task has just begun
C28_SecondBackoff ==
    \E p \in DOMAIN tasks :
        /\ tasks[p].st = "sleep" /\ tasks[p].attempt = 1
        /\ Len(tasks[p].errors) = 2
        /\ tasks[p].due = now + TICKS_PER_SECOND

\* C29: dedupe_hotels and rank_hotels return for every input, whatever
\* optional fields (price, rating) are absent, and an absent price adds to the
\* score what a price of zero adds: nothing.
C29_AbsentDataTolerated ==
    agent = "hotels" =>
        /\ pc # "raised"
        /\ (pc = "ranked" /\ request.user_preference = None) =>
              \A j \in 1..Len(final_options) :
                  IsNone(final_options[j].price) =>
                      final_options[j].score =
                          Some(hotels_base_score(
                                  [final_options[j] EXCEPT !.price = Some(0)]))

\* the concurrent searches that have written the cache entry of key k
Writers(k) ==
    {s \in DOMAIN searches :
        searches[s].wrote /\ hotels_cache_key(searches[s].request) = k}

\* C30: with searches running concurrently on one agent, a cache entry is at
\* every moment the whole final list of one round that has returned, with the
\* expiry that round computed, and of the rounds that wrote it the last one;
\* every step that changes an entry removes it or writes the list of the round
\* returning in that step; and a search served from the cache returns a prefix
\* of one round's final list.
C30_EntryIsOneRoundsList ==
    /\ [](\A k \in DOMAIN cache :
             \E w \in Writers(k) :
                 /\ searches[w].pc = "returned"
                 /\ cache[k] = [expires_at |-> searches[w].returned_at + HOTEL_CACHE_TTL,
                                options |-> searches[w].final]
                 /\ \A u \in Writers(k) :
                        searches[u].returned_at <= searches[w].returned_at)
    /\ [](\A s \in DOMAIN searches :
             searches[s].from_cache =>
                 \E w \in DOMAIN searches :
                     /\ searches[w].wrote
                     /\ searches[s].final =
                           Take(searches[w].final, searches[s].request.limit))
    /\ [][\A k \in DOMAIN cache' :
             (k \notin DOMAIN cache \/ cache'[k] # cache[k]) =>
                 \E s \in DOMAIN searches :
                     /\ searches[s].pc = "running" /\ searches'[s].pc = "returned"
                     /\ cache'[k] = CacheEntry(now, searches'[s].final)]_vars

\* two overlapping rounds have both written the entry; it is the later one's
C30_LastWriterWins ==
    \E s, t \in DOMAIN searches :
        /\ s # t
        /\ searches[s].wrote /\ searches[t].wrote
        /\ searches[s].overlapped \/ searches[t].overlapped
        /\ searches[s].returned_at < searches[t].returned_at
        /\ searches[s].final # searches[t].final
        /\ cache[hotels_cache_key(searches[t].request)].options = searches[t].final

\* _apply_preference_bias(_base_score(option), option, preference)
biased_score(option, preference) ==
    IF agent = "flights"
    THEN flights_apply_preference_bias(flights_base_score(option), option, preference)
    ELSE hotels_apply_preference_bias(hotels_base_score(option), option, preference)

\* C31: every tentative response holds at least one and at most
\* min(3, request.limit) options, no two of one dedupe key, each with the
\* score of the request's preference, in non-increasing order of score.
C31_TentativeSnapshotShape ==
    \A n \in Tentatives :
        LET snapshot == emitted[n].options
        IN  /\ Len(snapshot) >= 1
            /\ Len(snapshot) <= Min(3, request.limit)
            /\ \A i, j \in 1..Len(snapshot) :
                  i < j =>
                     /\ dedupe_key(snapshot[i]) # dedupe_key(snapshot[j])
                     /\ score_or_zero(snapshot[i]) >= score_or_zero(snapshot[j])
            /\ \A i \in 1..Len(snapshot) :
                  snapshot[i].score =
                      Some(biased_score(snapshot[i], request.user_preference))

\* a tentative response cut to the request's limit from a pool that held
\* more keys, two items of one key among them
C31_TentativeCutAndDeduped ==
    /\ pc = "running" /\ partial_emitted /\ Tentatives # {}
    /\ request.limit = 1 /\ Len(emitted[1].options) = 1
    /\ Cardinality({dedupe_key(results[i]) : i \in 1..Len(results)}) >= 2
    /\ Cardinality({dedupe_key(results[i]) : i \in 1..Len(results)}) < Len(results)


\* -------------------------------------------------------- Amadeus providers
\* AmadeusFlightProvider.search_flights and fetch_offers_for_hotel_ids of
\* AmadeusHotelProvider.search_hotels: one HTTP call per step, and the mapping
\* of the raw offers of a response to options.  A raw offer is written by
\* what the provider's parser does with it: "ok" (an option), "none" (the
\* parser returns None) or "malformed" (the parser raises).
MaxHotelIds == 2
MAX_ATTEMPTS == 3

OfferLists ==
    {<<>>, <<"ok">>, <<"none", "ok">>, <<"ok", "malformed", "ok">>,
     <<"malformed">>}

HttpResponse(status, offers, text, retry_after) ==
    [status |-> status, offers |-> offers, text |-> text,
     retry_after |-> retry_after]

\* status 0 stands for an exception that is no HTTPStatusError (network error)
NetworkError == HttpResponse(0, <<>>, "", None)

HttpOutcomes ==
    {HttpResponse(200, o, "", None) : o \in OfferLists}
    \cup {HttpResponse(400, <<>>, t, None) :
            t \in {"INVALID PROPERTY CODE", "NO ROOMS AVAILABLE", "INVALID DATE"}}
    \cup {HttpResponse(429, <<>>, "", r) : r \in {None, Some("2"), Some("0"), Some("soon")}}
    \cup {HttpResponse(500, <<>>, "", None), NetworkError}

\* float(ra) of a Retry-After header, None when it is absent or float raises
retry_after_wait(ra) ==
    IF ra = None THEN None
    ELSE IF ra[1] = "2" THEN Some(2)
    ELSE IF ra[1] = "0" THEN Some(0)
    ELSE None

\* "if wait:" of the code
wait_given(ra) == retry_after_wait(ra) # None /\ retry_after_wait(ra)[1] # 0

\* the positions among the first n raw offers that the parser maps to an option
OkPositions(offers, n) ==
    SelectSeq([k \in 1..n |-> k], LAMBDA k : offers[k] = "ok")

\* a loop with try/except around each item: every mapped offer is appended
parse_each_guarded(offers) ==
    [kept |-> OkPositions(offers, Len(offers)), raised |-> FALSE]

\* a loop without: the first raise leaves the loop
parse_until_raise(offers) ==
    LET bad == {k \in 1..Len(offers) : offers[k] = "malformed"}
    IN  IF bad = {} THEN parse_each_guarded(offers)
        ELSE LET first == CHOOSE k \in bad : \A j \in bad : k <= j
             IN  [kept |-> OkPositions(offers, first - 1), raised |-> TRUE]

\* the options appended for hotel id i: offer 0 is the partial option made of
\* the hotel's metadata
MappedOptions(i, kept) == [k \in 1..Len(kept) |-> [hotel |-> i, offer |-> kept[k]]]
PartialOption(i) == <<[hotel |-> i, offer |-> 0]>>

NoResponse == [offers |-> <<>>, kept |-> <<>>, path |-> "none"]

NewFetch(provider, ids) ==
    [provider |-> provider, ids |-> ids, i |-> 1,
     phase |-> "chunk", attempt |-> 1, chunk_calls |-> 0, out |-> <<>>,
     last |-> NoResponse]

InitOffers ==
    /\ agent = "hotels" /\ providers = 0
    /\ cache = <<>> /\ now = 0 /\ rounds = 0 /\ pc = "idle"
    /\ limit_arg = 0 /\ request = NoRequest
    /\ on_partial = FALSE /\ use_cache = FALSE /\ started = 0
    /\ tasks = <<>> /\ completed = <<>> /\ folded = {}
    /\ results = <<>> /\ partial_emitted = FALSE /\ emitted = <<>>
    /\ final_options = <<>> /\ timed_out = FALSE /\ accumulated = <<>>
    /\ searches = <<>> /\ hard_filters = FALSE
    /\ client = <<>> /\ app_state = <<>>
    /\ \/ fetch = NewFetch("flights", 1)
       \/ \E ids \in 1..MaxHotelIds : fetch = NewFetch("hotels", ids)

search_vars == <<agent, providers, cache, now, rounds, pc, limit_arg, request,
                 on_partial, use_cache, started, tasks, completed, folded,
                 results, partial_emitted, emitted, final_options, timed_out,
                 accumulated, searches, hard_filters>>

\* search_flights: one GET; any exception of it gives []; each offer is
\* parsed inside its own try
SearchFlightsCall(o) ==
    /\ fetch.provider = "flights" /\ fetch.phase = "chunk"
    /\ fetch' = IF o.status = 200
                THEN [fetch EXCEPT !.phase = "returned",
                        !.out = MappedOptions(1, parse_each_guarded(o.offers).kept),
                        !.last = [offers |-> o.offers,
                                  kept |-> parse_each_guarded(o.offers).kept,
                                  path |-> "flights"]]
                ELSE [fetch EXCEPT !.phase = "returned"]
    /\ UNCHANGED <<search_vars, client, app_state>>

\* the for loop over the chunks goes on to the next chunk, or out is returned
NextChunk(f, appended, last) ==
    [f EXCEPT !.out = f.out \o appended, !.last = last,
              !.i = f.i + 1, !.attempt = 1, !.chunk_calls = 0,
              !.phase = IF f.i + 1 > f.ids THEN "returned" ELSE "chunk"]

\* what is appended for a list of offers that try_chunk or the per-hotel call
\* returned with status 200 and that is mapped item by item inside a try
Mapped200(f, offers, path) ==
    IF offers = <<>> THEN NextChunk(f, PartialOption(f.i), f.last)
    ELSE NextChunk(f, MappedOptions(f.i, parse_each_guarded(offers).kept),
                   [offers |-> offers, kept |-> parse_each_guarded(offers).kept,
                    path |-> path])

\* one attempt of try_chunk, and what the chunk loop does with its result
ChunkCall(o) ==
    /\ fetch.provider = "hotels" /\ fetch.phase = "chunk"
    /\ LET f == [fetch EXCEPT !.chunk_calls = fetch.chunk_calls + 1]
       IN  fetch' =
             IF o.status = 200 THEN Mapped200(f, o.offers, "chunk")
             ELSE IF o.status = 400 THEN [f EXCEPT !.phase = "single"]
             ELSE IF o.status = 429 \/ o = NetworkError
             THEN IF f.attempt < MAX_ATTEMPTS
                  THEN [f EXCEPT !.attempt = f.attempt + 1]
                  ELSE NextChunk(f, PartialOption(f.i), f.last)
             ELSE NextChunk(f, PartialOption(f.i), f.last)
    /\ UNCHANGED <<search_vars, client, app_state>>

\* the per-hotel call after a 400 of the chunk
SingleCall(o) ==
    /\ fetch.provider = "hotels" /\ fetch.phase = "single"
    /\ fetch' =
         IF o.status = 200 THEN Mapped200(fetch, o.offers, "single")
         ELSE IF o = NetworkError THEN [fetch EXCEPT !.phase = "raised"]
         ELSE IF o.status = 400 /\ o.text = "NO ROOMS AVAILABLE"
         THEN NextChunk(fetch, PartialOption(fetch.i), fetch.last)
         ELSE IF o.status = 429 /\ wait_given(o.retry_after)
         THEN [fetch EXCEPT !.phase = "single_retry"]
         ELSE NextChunk(fetch, <<>>, fetch.last)
    /\ UNCHANGED <<search_vars, client, app_state>>

\* the one retry of the per-hotel call after a 429 with Retry-After: the call
\* and the mapping of its offers are inside one try
SingleRetryCall(o) ==
    /\ fetch.provider = "hotels" /\ fetch.phase = "single_retry"
    /\ fetch' =
         IF o.status # 200 THEN NextChunk(fetch, <<>>, fetch.last)
         ELSE IF o.offers = <<>>
         THEN NextChunk(fetch, PartialOption(fetch.i), fetch.last)
         ELSE NextChunk(fetch,
                        MappedOptions(fetch.i, parse_until_raise(o.offers).kept),
                        [offers |-> o.offers,
                         kept |-> parse_until_raise(o.offers).kept,
                         path |-> "single_retry"])
    /\ UNCHANGED <<search_vars, client, app_state>>

NextOffers ==
    \/ \E o \in HttpOutcomes : SearchFlightsCall(o)
    \/ \E o \in HttpOutcomes : ChunkCall(o)
    \/ \E o \in HttpOutcomes : SingleCall(o)
    \/ \E o \in HttpOutcomes : SingleRetryCall(o)

SpecOffers == InitOffers /\ [][NextOffers]_vars

\* C32: when one raw offer of a provider response fails to parse, only that
\* offer is dropped: every well-formed offer of the same response, before and
\* after it, is among the provider's results (search_flights and each place
\* where fetch_offers_for_hotel_ids maps the offers of a response).
C32_OnlyTheBadOfferDropped ==
    fetch.last.kept = OkPositions(fetch.last.offers, Len(fetch.last.offers))

\* C39: fetch_offers_for_hotel_ids never raises, whatever the HTTP outcomes of
\* the chunk call and of the per-hotel calls are, and try_chunk issues at most
\* 3 HTTP calls for one chunk.
C39_FetchAlwaysReturnsAList ==
    fetch.phase # "raised" /\ fetch.chunk_calls <= MAX_ATTEMPTS


\* ----------------------------------------------------------- hard filters
\* Searches whose requests set their hard filters (non_stop_only = True,
\* min_rating = 4) on an agent whose providers answer at the first attempt.
InitFiltered ==
    /\ agent \in {"flights", "hotels"}
    /\ providers \in 1..MaxProviders
    /\ cache = <<>> /\ now = 0 /\ rounds = 0 /\ pc = "idle"
    /\ limit_arg = 0 /\ request = NoRequest
    /\ on_partial = FALSE /\ use_cache = FALSE /\ started = 0
    /\ tasks = <<>> /\ completed = <<>> /\ folded = {}
    /\ results = <<>> /\ partial_emitted = FALSE /\ emitted = <<>>
    /\ final_options = <<>> /\ timed_out = FALSE /\ accumulated = <<>>
    /\ searches = <<>>
    /\ hard_filters = TRUE /\ ServicesIdle

SpecFiltered == InitFiltered /\ [][NextCache]_vars

\* C33: every item of a final list satisfies the request's hard filters: with
\* non_stop_only no flight has stops > 0, and with min_rating no hotel has a
\* rating below it, whatever the providers returned.
C33_FinalListHonoursHardFilters ==
    (pc = "returned" /\ rounds >= 1) =>
        \A i \in 1..Len(final_options) :
            /\ (agent = "flights" /\ request.non_stop_only)
                   => final_options[i].stops = 0
            /\ (agent = "hotels" /\ request.min_rating # None
                   /\ final_options[i].rating # None)
                   => final_options[i].rating[1] >= request.min_rating[1]


\* whether options a and b differ in nothing the base score reads but the
\* price, and both prices are known and positive
SameButPrice(a, b) ==
    IF agent = "flights"
    THEN /\ a.stops = b.stops /\ a.duration = b.duration
         /\ a.price > 0 /\ b.price > 0
    ELSE /\ a.rating = b.rating
         /\ a.distance_from_center_km = b.distance_from_center_km
         /\ a.price # None /\ b.price # None
         /\ a.price[1] > 0 /\ b.price[1] > 0

PriceOf(a) == IF agent = "flights" THEN a.price ELSE a.price[1]

\* C34: ranked with no preference, of two flights with the same stops and
\* duration and known positive prices (two hotels with the same rating and
\* distance) the strictly cheaper one has the strictly higher score and
\* stands before the other.
C34_CheaperRanksFirst ==
    (pc = "ranked" /\ request.user_preference = None) =>
        \A i, j \in 1..Len(final_options) :
            (/\ SameButPrice(final_options[i], final_options[j])
             /\ PriceOf(final_options[i]) < PriceOf(final_options[j])) =>
                /\ final_options[i].score # None /\ final_options[j].score # None
                /\ final_options[i].score[1] > final_options[j].score[1]
                /\ i < j

C34_CheaperMovedForward ==
    /\ pc = "ranked" /\ request.user_preference = None
    /\ Len(final_options) >= 2
    /\ SameButPrice(final_options[1], final_options[2])
    /\ PriceOf(final_options[1]) < PriceOf(final_options[2])
    /\ InputPosition(final_options[1]) > InputPosition(final_options[2])


\* the cache without the entry of key k
CacheWithout(k) == [j \in DOMAIN cache \ {k} |-> cache[j]]

\* C35: a search changes the hotel cache only by removing the expired entry
\* of its key when it reads it and by writing its non-empty final list, both
\* only with use_cache; a search with use_cache false neither reads nor
\* changes the cache; and a search whose final list is empty leaves no entry
\* for its key, so that the same request made next fans out again.
C35_CacheChangedOnlyByPopAndWrite ==
    /\ [][(cache' # cache) =>
            (/\ agent = "hotels"
             /\ \/ /\ SearchStarts /\ use_cache' /\ pc' = "running"
                   /\ hotels_cache_key(request') \in DOMAIN cache
                   /\ cache[hotels_cache_key(request')].expires_at <= now'
                   /\ cache' = CacheWithout(hotels_cache_key(request'))
                \/ /\ pc = "running" /\ pc' = "returned" /\ use_cache
                   /\ final_options' # <<>>
                   /\ cache' = cache_write(cache, hotels_cache_key(request), now,
                                           final_options'))]_vars
    /\ [][(SearchStarts /\ ~use_cache') => (pc' = "running" /\ cache' = cache)]_vars
    /\ []((agent = "hotels" /\ pc = "returned" /\ use_cache /\ final_options = <<>>)
             => hotels_cache_key(request) \notin DOMAIN cache)
    /\ [][(/\ agent = "hotels" /\ pc = "returned" /\ use_cache /\ final_options = <<>>
           /\ SearchStarts /\ request' = request) => pc' = "running"]_vars

\* a second search found its key's entry expired, removed it, fanned out and
\* has written its own list
C35_ExpiredEntryReplaced ==
    /\ agent = "hotels" /\ pc = "returned" /\ rounds = 2 /\ use_cache
    /\ started >= HOTEL_CACHE_TTL /\ started < now
    /\ DOMAIN cache = {hotels_cache_key(request)}
    /\ cache[hotels_cache_key(request)] = CacheEntry(now, final_options)


\* C36: the cache key does not depend on the request's limit and a stored list
\* is cut to the limit of the request that wrote it; a search served from the
\* cache returns the first min(its limit, the writing request's limit, number
\* stored) items of the stored list, in the stored order.
C36_CacheHitCutToBothLimits ==
    /\ [](agent = "hotels" /\ rounds >= 1 =>
            \A l \in 1..MAX_RESULTS_PER_AGENT :
                hotels_cache_key([request EXCEPT !.limit = l])
                    = hotels_cache_key(request))
    /\ [][(agent = "hotels" /\ pc = "running" /\ cache' # cache) =>
            (/\ cache'[hotels_cache_key(request)].options = final_options'
             /\ Len(final_options') <= request.limit)]_vars
    /\ [][(agent = "hotels" /\ ServedFromCache) =>
            LET stored == cache[hotels_cache_key(request')].options
            IN  /\ final_options' = SubSeq(stored, 1, Min(request'.limit, Len(stored)))
                /\ (FanOutReturned /\ use_cache /\ final_options # <<>>
                      /\ hotels_cache_key(request) = hotels_cache_key(request')) =>
                       /\ stored = final_options
                       /\ Len(final_options') =
                             Min(request'.limit, Min(request.limit, Len(stored)))]_vars

\* a search with limit 1 served from a longer list that a search with another
\* limit stored
C36_HitWithSmallerLimit ==
    /\ CacheHitReturned /\ rounds = 2
    /\ request.limit = 1 /\ final_options # <<>>
    /\ Len(cache[hotels_cache_key(request)].options) >= 2
    /\ final_options = <<cache[hotels_cache_key(request)].options[1]>>


\* the time a provider task takes when each of its PROVIDER_MAX_RETRIES + 1
\* attempts runs into the per-call timeout: the attempts and the backoff
\* sleeps of 0.5 s and 1.0 s between them
MaxTaskTicks ==
    (PROVIDER_MAX_RETRIES + 1) * PROVIDER_TIMEOUT
      + INITIAL_DELAY_TICKS + 2 * INITIAL_DELAY_TICKS

\* whether a provider of the task has ended a call later than the per-call
\* timeout: the call it is in ends after its deadline, or the attempt or
\* sleep it is in has begun later than timeouts and backoffs alone allow
Lagged(task) ==
    \/ /\ task.st = "call"
       /\ \/ task.due > task.deadline
          \/ task.deadline - PROVIDER_TIMEOUT >
                started + task.attempt * PROVIDER_TIMEOUT
                  + (task.delay - INITIAL_DELAY_TICKS)
    \/ /\ task.st = "sleep"
       /\ task.due - task.delay >
             started + (task.attempt + 1) * PROVIDER_TIMEOUT
               + (task.delay - INITIAL_DELAY_TICKS)

AllTimedOut(task) ==
    /\ Len(task.errors) = PROVIDER_MAX_RETRIES + 1
    /\ \A i \in 1..Len(task.errors) : task.errors[i] = TimeoutText

\* C37: a provider task whose every attempt runs into the per-call timeout
\* ends 3 timeouts and backoffs of 0.5 s and 1.0 s after the search began
\* (16.5 s flights, 46.5 s hotels), before the whole-round deadline (20 s,
\* 60 s); so the whole-round timeout is taken only when a provider has ended
\* a call later than the per-call timeout.
C37_RoundTimeoutNeedsLag ==
    /\ [](MaxTaskTicks < AGENT_TIMEOUT
          /\ MaxTaskTicks = IF agent = "flights" THEN 33 ELSE 93)
    /\ [][pc = "running" =>
            \A p \in Providers :
                (/\ tasks[p].st = "call" /\ ~Lagged(tasks[p])
                 /\ tasks'[p].st = "done" /\ AllTimedOut(tasks'[p]))
                  => now = started + MaxTaskTicks]_vars
    /\ [][(~timed_out /\ timed_out') =>
            \E p \in Providers : Lagged(tasks[p])]_vars

\* a search has returned, not on the whole-round timeout, at the moment its
\* slowest task gave up after three timeouts
C37_ThreeTimeoutsWithinRound ==
    /\ pc = "returned" /\ rounds = 1 /\ ~timed_out /\ providers >= 1
    /\ now = started + MaxTaskTicks


\* ----------------------------------------------------------- AmadeusClient
\* One AmadeusClient and up to MaxGets calls of get() on it that interleave
\* at their awaits (the token POST and the GET).  Time is in seconds.
MaxGets == 2
MaxAuths == 3
MaxClientTime == 240
REFRESH_MARGIN_SECONDS == 60
DEFAULT_EXPIRES_IN == 1800

\* payload.get("expires_in"): absent, a number of seconds, or no number
\* (the value as the characters of its JSON text)
ExpiresInValues ==
    {None, Some(<<"1","2","0">>), Some(<<"3","0">>), Some(<<"s","o","o","n">>)}

\* int(payload.get("expires_in", 1800)): None when int raises
int_expires_in(e) ==
    IF e = None THEN Some(DEFAULT_EXPIRES_IN)
    ELSE IF e[1] # <<>> /\ \A i \in 1..Len(e[1]) : IsDigit(e[1][i])
    THEN Some(DecimalValue(e[1]))
    ELSE None

NoGet == [pc |-> "idle", token |-> 0, fetched_at |-> 0, expiry_at_fetch |-> 0]

\* __init__: _access_token = None (0), _token_expiry = 0.0.  A token is the
\* number of the authentication response that brought it; expiry_of is the
\* number of the response _token_expiry was computed from.
NewClient ==
    [access_token |-> 0, token_expiry |-> 0, expiry_of |-> 0,
     time |-> 0, auths |-> 0, gets |-> [g \in 1..MaxGets |-> NoGet]]

InitClient ==
    /\ agent = "hotels" /\ providers = 0
    /\ cache = <<>> /\ now = 0 /\ rounds = 0 /\ pc = "idle"
    /\ limit_arg = 0 /\ request = NoRequest
    /\ on_partial = FALSE /\ use_cache = FALSE /\ started = 0
    /\ tasks = <<>> /\ completed = <<>> /\ folded = {}
    /\ results = <<>> /\ partial_emitted = FALSE /\ emitted = <<>>
    /\ final_options = <<>> /\ timed_out = FALSE /\ accumulated = <<>>
    /\ searches = <<>> /\ hard_filters = FALSE
    /\ fetch = <<>> /\ app_state = <<>>
    /\ client = NewClient

\* "if not self._access_token or time.time() >= self._token_expiry"
token_missing_or_expired(c) == c.access_token = 0 \/ c.time >= c.token_expiry

\* get() is called: _get_access_token either returns the held token, and the
\* GET is sent with it, or awaits _authenticate's POST
GetBegins(g) ==
    /\ client.gets[g].pc = "idle"
    /\ client' =
         IF token_missing_or_expired(client)
         THEN [client EXCEPT !.gets[g] = [NoGet EXCEPT !.pc = "authenticating"]]
         ELSE [client EXCEPT !.gets[g] =
                 [pc |-> "sending", token |-> client.access_token,
                  fetched_at |-> client.time,
                  expiry_at_fetch |-> client.token_expiry]]
    /\ UNCHANGED <<search_vars, fetch, app_state>>

\* the token POST fails, or its payload has no access_token: get() raises
AuthFails(g) ==
    /\ client.gets[g].pc = "authenticating"
    /\ client' = [client EXCEPT !.gets[g] = [NoGet EXCEPT !.pc = "raised"]]
    /\ UNCHANGED <<search_vars, fetch, app_state>>

\* the token POST answers 200: lines 54-58 of _authenticate, then the return
\* of _get_access_token and the sending of the GET
AuthResponds(g, e) ==
    /\ client.gets[g].pc = "authenticating"
    /\ client.auths < MaxAuths
    /\ LET id == client.auths + 1
           c1 == [client EXCEPT !.auths = id, !.access_token = id]
       IN  client' =
             IF int_expires_in(e) = None
             THEN [c1 EXCEPT !.gets[g] = [NoGet EXCEPT !.pc = "raised"]]
             ELSE LET expiry == c1.time + int_expires_in(e)[1] - REFRESH_MARGIN_SECONDS
                  IN  [c1 EXCEPT !.token_expiry = expiry, !.expiry_of = id,
                                 !.gets[g] = [pc |-> "sending", token |-> id,
                                              fetched_at |-> c1.time,
                                              expiry_at_fetch |-> expiry]]
    /\ UNCHANGED <<search_vars, fetch, app_state>>

\* the GET has answered or failed: get() is over
GetEnds(g) ==
    /\ client.gets[g].pc \in {"sending", "raised"}
    /\ client' = [client EXCEPT !.gets[g] = NoGet]
    /\ UNCHANGED <<search_vars, fetch, app_state>>

ClientTimePasses ==
    /\ client.time + 30 <= MaxClientTime
    /\ client' = [client EXCEPT !.time = @ + 30]
    /\ UNCHANGED <<search_vars, fetch, app_state>>

NextClient ==
    \/ \E g \in 1..MaxGets : GetBegins(g)
    \/ \E g \in 1..MaxGets : AuthFails(g)
    \/ \E g \in 1..MaxGets, e \in ExpiresInValues : AuthResponds(g, e)
    \/ \E g \in 1..MaxGets : GetEnds(g)
    \/ ClientTimePasses

SpecClient == InitClient /\ [][NextClient]_vars

\* C38: _get_access_token authenticates exactly when no token is held or the
\* time has reached _token_expiry; a GET never carries a token whose
\* _token_expiry had passed when the token was fetched for it; and
\* _access_token and _token_expiry are always of one authentication response,
\* also when calls of get() interleave.
C38_TokenCachedUntilExpiry ==
    /\ [](\A g \in 1..MaxGets :
             client.gets[g].pc = "sending" =>
                 client.gets[g].fetched_at < client.gets[g].expiry_at_fetch)
    /\ [](client.access_token # 0 => client.expiry_of = client.access_token)
    /\ [][\A g \in 1..MaxGets :
             (client.gets[g].pc = "idle" /\ client'.gets[g].pc # "idle") =>
                 (client'.gets[g].pc = "authenticating"
                    <=> (client.access_token = 0
                           \/ client.time >= client.token_expiry))]_vars


\* --------------------------------------------------------------- supervisor
\* The respond node of the supervisor graph and invariants_pass.  A dict is a
\* record of Optionals (None: the key is absent); approvals' values are
\* "True", "False" or "1" (a value that is truthy and is not True).
MaxResponses == 2

IsoDate == <<"2","0","2","5","-","1","2","-","0","1">>
Truthy(o) == o # None /\ o[1] # <<>>

AppStates ==
    [session_id : {None, Some(<<"s","1">>)},
     trip_slots : [start_date : {None, Some(<<>>), Some(IsoDate)},
                   end_date : {None, Some(IsoDate)},
                   budget : {None, Some(<<>>), Some(<<"9","0","0">>)}],
     candidates : [flights : {None, Some(<<>>), Some(<<"AI302">>)},
                   hotels : {None, Some(<<"Ritz">>)}],
     itinerary_draft : SUBSET {"flights", "lodging"},
     bundles : {<<>>, <<"Balanced">>},
     approvals : [required : {None, Some("True"), Some("1")},
                  granted : {None, Some("True"), Some("1")}],
     messages : {<<>>},
     next_action : {"respond"}]

InitSupervisor ==
    /\ agent = "hotels" /\ providers = 0
    /\ cache = <<>> /\ now = 0 /\ rounds = 0 /\ pc = "idle"
    /\ limit_arg = 0 /\ request = NoRequest
    /\ on_partial = FALSE /\ use_cache = FALSE /\ started = 0
    /\ tasks = <<>> /\ completed = <<>> /\ folded = {}
    /\ results = <<>> /\ partial_emitted = FALSE /\ emitted = <<>>
    /\ final_options = <<>> /\ timed_out = FALSE /\ accumulated = <<>>
    /\ searches = <<>> /\ hard_filters = FALSE
    /\ fetch = <<>> /\ client = <<>>
    /\ app_state \in AppStates

\* AppState(**state) raises: session_id, the one required field, is missing
validation_fails(st) == st.session_id = None

\* invariants_pass with no test of the approvals
invariants_pass_unapproved(st) ==
    IF validation_fails(st) THEN FALSE
    ELSE LET slots == st.trip_slots
             has_dates == Truthy(slots.start_date) /\ Truthy(slots.end_date)
             has_flights == Truthy(st.candidates.flights)
                              \/ "flights" \in st.itinerary_draft
             has_hotels == Truthy(st.candidates.hotels)
                              \/ "lodging" \in st.itinerary_draft
             has_bundles_if_budget ==
                 ~Truthy(slots.budget) \/ (Truthy(slots.budget) /\ Len(st.bundles) > 0)
         IN  IF has_dates /\ ~(has_flights /\ has_hotels) THEN FALSE
             ELSE IF ~has_bundles_if_budget THEN FALSE
             ELSE TRUE

invariants_pass(st) ==
    IF validation_fails(st) THEN FALSE
    ELSE LET slots == st.trip_slots
             has_dates == Truthy(slots.start_date) /\ Truthy(slots.end_date)
             has_flights == Truthy(st.candidates.flights)
                              \/ "flights" \in st.itinerary_draft
             has_hotels == Truthy(st.candidates.hotels)
                              \/ "lodging" \in st.itinerary_draft
             has_bundles_if_budget ==
                 ~Truthy(slots.budget) \/ (Truthy(slots.budget) /\ Len(st.bundles) > 0)
             booking_needs_approval ==
                 st.approvals.required # Some("True")
                   \/ st.approvals.granted = Some("True")
         IN  IF has_dates /\ ~(has_flights /\ has_hotels) THEN FALSE
             ELSE IF ~has_bundles_if_budget THEN FALSE
             ELSE IF ~booking_needs_approval THEN FALSE
             ELSE TRUE

Finalizing == "Itinerary draft and bundles ready (stub)."
Remediation == "Need more info or steps before finishing."

HowCanIHelp == "How can I help plan your trip? (stub)"

\* respond(state): the remediation message and the way back to the
\* supervisor, or the finalizing message
Respond ==
    /\ app_state # <<>> /\ app_state.next_action = "respond"
    /\ Len(app_state.messages) < 2 * MaxResponses
    /\ app_state' =
         IF ~invariants_pass(app_state)
         THEN [app_state EXCEPT !.messages = Append(@, Remediation),
                                !.next_action = ""]
         ELSE [app_state EXCEPT !.messages = Append(@, Finalizing)]
    /\ UNCHANGED <<search_vars, fetch, client>>

\* the graph is run again on the state: supervisor_llm, with no request for
\* the specialists in the last user message, answers and routes to respond
\* (route_from_supervisor raises on a state that fails validation)
SupervisorLlm ==
    /\ app_state # <<>> /\ app_state.messages # <<>>
    /\ Len(app_state.messages) < 2 * MaxResponses
    /\ ~validation_fails(app_state)
    /\ app_state' = [app_state EXCEPT !.messages = Append(@, HowCanIHelp),
                                      !.next_action = "respond"]
    /\ UNCHANGED <<search_vars, fetch, client>>

NextSupervisor == Respond \/ SupervisorLlm

SpecSupervisor == InitSupervisor /\ [][NextSupervisor]_vars

\* the four cases in which the state must not be finalized
DatesButNoTravel(st) ==
    /\ Truthy(st.trip_slots.start_date) /\ Truthy(st.trip_slots.end_date)
    /\ \/ ~Truthy(st.candidates.flights) /\ "flights" \notin st.itinerary_draft
       \/ ~Truthy(st.candidates.hotels) /\ "lodging" \notin st.itinerary_draft
BudgetButNoBundles(st) == Truthy(st.trip_slots.budget) /\ st.bundles = <<>>
ApprovalMissing(st) ==
    st.approvals.required = Some("True") /\ st.approvals.granted # Some("True")

\* C40: respond appends the finalizing message only when invariants_pass
\* holds, and invariants_pass is false exactly when the dates are set and
\* flights or lodging is in neither candidates nor itinerary_draft, or a
\* budget is set and bundles is empty, or approvals.required is True and
\* approvals.granted is not True, or the state fails AppState validation.
C40_FinalizedOnlyWhenInvariantsPass ==
    /\ [](invariants_pass(app_state) <=>
            ~(\/ DatesButNoTravel(app_state)
              \/ BudgetButNoBundles(app_state)
              \/ ApprovalMissing(app_state)
              \/ app_state.session_id = None))
    /\ [][(app_state'.messages # app_state.messages) =>
            LET said == app_state'.messages[Len(app_state'.messages)]
            IN  /\ said = Finalizing =>
                      ~(\/ DatesButNoTravel(app_state)
                        \/ BudgetButNoBundles(app_state)
                        \/ ApprovalMissing(app_state)
                        \/ app_state.session_id = None)
                /\ said = Remediation =>
                      /\ \/ DatesButNoTravel(app_state)
                         \/ BudgetButNoBundles(app_state)
                         \/ ApprovalMissing(app_state)
                         \/ app_state.session_id = None
                      /\ app_state'.next_action = ""]_vars

\* a state with dates, travel, budget, bundles and a required approval that
\* is granted has been finalized
C40_ApprovedTripFinalized ==
    /\ app_state.messages # <<>>
    /\ app_state.messages[Len(app_state.messages)] = Finalizing
    /\ Truthy(app_state.trip_slots.start_date) /\ Truthy(app_state.trip_slots.end_date)
    /\ Truthy(app_state.trip_slots.budget)
    /\ app_state.approvals.required = Some("True")
    /\ app_state.candidates.flights = Some(<<>>)

====
